---- MODULE Spec2Model ----
(***************************************************************************)
(* A model of the RBAC policy engine of backend/modules/base/policy        *)
(* (engine.py): permission-rule parsing and matching, the permission       *)
(* cache with role inheritance, the engine singleton and its (re)load,     *)
(* and the access helpers has_permission / require_permission.             *)
(*                                                                         *)
(* Python strings are modelled as sequences of one-character strings, so   *)
(* that str.split and str.strip are computed and not assumed.  The letters *)
(* "a" and "b" serve as module names and as action names, "c" is an action *)
(* name that no rule of the bounded rule alphabet contains.                *)
(***************************************************************************)
EXTENDS Integers, Sequences, FiniteSets, TLC

(***************************************************************************)
(* Bounds of the model.                                                    *)
(***************************************************************************)
\* longest permission-rule string enumerated for the matcher
MaxLen == 5
\* longest role list passed to check_permission
MaxRoles == 2
\* longest role list a user carries
MaxUserRoles == 1
\* most inheritance edges of an enumerated hierarchy
MaxEdges == 3
\* threads of the concurrent specifications
NThreads == 2
\* calls a thread makes in the concurrent specifications
MaxCalls == 2
\* nested calls the interpreter allows before it raises RecursionError
RecursionLimit == 6

(***************************************************************************)
(* Strings.                                                                *)
(***************************************************************************)
\* the characters of the bounded rule alphabet
Chars == {"a", "b", "*", ":", ",", " "}

Star == <<"*">>

\* all strings over Chars of length at most n
StringsUpTo(n) == UNION {[1..k -> Chars] : k \in 0..n}

\* c in s
contains(s, c) == \E i \in 1..Len(s) : s[i] = c

\* index of the first occurrence of c in s (c occurs in s)
find(s, c) == CHOOSE i \in 1..Len(s) : s[i] = c /\ \A j \in 1..(i - 1) : s[j] # c

\* str.split(sep): the list of the pieces between the separators
RECURSIVE split(_, _)
split(s, sep) ==
    IF ~contains(s, sep) THEN <<s>>
    ELSE LET i == find(s, sep)
         IN  <<SubSeq(s, 1, i - 1)>> \o split(SubSeq(s, i + 1, Len(s)), sep)

\* str.strip(): leading and trailing whitespace removed
RECURSIVE strip(_)
strip(s) ==
    IF s = <<>> THEN s
    ELSE IF Head(s) = " " THEN strip(Tail(s))
    ELSE IF s[Len(s)] = " " THEN strip(SubSeq(s, 1, Len(s) - 1))
    ELSE s

(***************************************************************************)
(* PolicyEngine._parse_permission and PolicyEngine._matches_permission.    *)
(***************************************************************************)
\* index of the last occurrence of c in s (c occurs in s)
rfind(s, c) == CHOOSE i \in 1..Len(s) : s[i] = c /\ \A j \in (i + 1)..Len(s) : s[j] # c

\* a plausible slip: rsplit for split, the string is cut at its last ':'
_parse_permission_SplitsAtLast(permission) ==
    IF ~contains(permission, ":") THEN <<permission, Star>>
    ELSE LET i == rfind(permission, ":")
         IN  <<SubSeq(permission, 1, i - 1),
               SubSeq(permission, i + 1, Len(permission))>>

\* 'module:action' -> <<module, action>>, split at the first ':' only
_parse_permission(permission) ==
    IF ~contains(permission, ":") THEN <<permission, Star>>
    ELSE LET i == find(permission, ":")
         IN  <<SubSeq(permission, 1, i - 1),
               SubSeq(permission, i + 1, Len(permission))>>

\* [a.strip() for a in rule_action.split(",")]
allowed_actions(rule_action) ==
    LET parts == split(rule_action, ",")
    IN  [i \in 1..Len(parts) |-> strip(parts[i])]

\* a plausible slip: the "*" element of the action list is not honoured
_matches_permission_NoListStar(rule, module, action) ==
    LET parsed == _parse_permission(rule)
        rule_module == parsed[1]
        rule_action == parsed[2]
    IN  IF rule_module = Star /\ rule_action = Star THEN TRUE
        ELSE IF rule_module = module /\ rule_action = Star THEN TRUE
        ELSE IF rule_module = Star /\ rule_action = action THEN TRUE
        ELSE IF rule_module = module
             THEN LET allowed == allowed_actions(rule_action)
                  IN  \E i \in 1..Len(allowed) : allowed[i] = action
        ELSE FALSE

_matches_permission(rule, module, action) ==
    LET parsed == _parse_permission(rule)
        rule_module == parsed[1]
        rule_action == parsed[2]
    IN  IF rule_module = Star /\ rule_action = Star THEN TRUE
        ELSE IF rule_module = module /\ rule_action = Star THEN TRUE
        ELSE IF rule_module = Star /\ rule_action = action THEN TRUE
        ELSE IF rule_module = module
             THEN LET allowed == allowed_actions(rule_action)
                  IN  \/ \E i \in 1..Len(allowed) : allowed[i] = action
                      \/ \E i \in 1..Len(allowed) : allowed[i] = Star
        ELSE FALSE

(***************************************************************************)
(* Configurations: what yaml.safe_load returns for roles.yaml.             *)
(*   roles     : an insertion-ordered dict, a sequence of [name, body];    *)
(*               a body is None (isNone) or a dict with "permissions" and  *)
(*               "description" ("" when the body has none)                 *)
(*   hierarchy : a dict role name -> [inherits: list of role names]        *)
(*   defaults  : a dict context -> role name                               *)
(* A section that the file does not have reads as the empty dict, as       *)
(* self._config.get(section, {}) gives it.                                 *)
(* An empty file loads as None.                                            *)
(***************************************************************************)
NoneConfig == [kind |-> "None"]

EmptyDict == [k \in {} |-> {}]

Range(seq) == {seq[i] : i \in 1..Len(seq)}

\* roles.keys()
role_names(roles) == {roles[i].name : i \in 1..Len(roles)}

\* roles[name]
role_body(roles, name) ==
    roles[CHOOSE i \in 1..Len(roles) : roles[i].name = name]

(***************************************************************************)
(* PolicyEngine._build_permission_cache.                                   *)
(***************************************************************************)
\* a plausible slip: the parents' own permissions are added, but not what the
\* parents inherit (no recursive call)
get_all_permissions_OneLevel(roles, hierarchy, role_name, visited) ==
    LET inherits == IF role_name \in DOMAIN hierarchy
                    THEN hierarchy[role_name].inherits
                    ELSE <<>>
        family == {role_name} \cup Range(inherits)
    IN  [raised |-> \E n \in family \cap role_names(roles) : role_body(roles, n).isNone,
         permissions |->
             UNION {Range(role_body(roles, n).permissions) :
                       n \in family \cap role_names(roles)}]

\* get_all_permissions(role_name, visited): the permissions of role_name and,
\* through hierarchy, of its parents; raised when a role body is None
\* (None.get raises AttributeError).  visited is copied for every parent.
RECURSIVE get_all_permissions(_, _, _, _)
get_all_permissions(roles, hierarchy, role_name, visited) ==
    IF role_name \in visited THEN [raised |-> FALSE, permissions |-> {}]
    ELSE IF role_name \in role_names(roles) /\ role_body(roles, role_name).isNone
         THEN [raised |-> TRUE, permissions |-> {}]
    ELSE LET direct == IF role_name \in role_names(roles)
                       THEN Range(role_body(roles, role_name).permissions)
                       ELSE {}
             inherits == IF role_name \in DOMAIN hierarchy
                         THEN hierarchy[role_name].inherits
                         ELSE <<>>
             parents == [i \in 1..Len(inherits) |->
                            get_all_permissions(roles, hierarchy, inherits[i],
                                                visited \cup {role_name})]
         IN  [raised |-> \E i \in 1..Len(inherits) : parents[i].raised,
              permissions |->
                  direct \cup UNION {parents[i].permissions : i \in 1..Len(inherits)}]

\* a plausible slip: the permissions set is created once, outside
\* get_all_permissions, so every role also gets what was collected before it
build_step_SharedSet(roles, hierarchy, cache, i) ==
    LET got == get_all_permissions(roles, hierarchy, roles[i].name, {})
    IN  IF got.raised THEN [exc |-> "AttributeError", cache |-> cache]
        ELSE [exc |-> "",
              cache |-> [k \in DOMAIN cache \cup {roles[i].name} |->
                            IF k = roles[i].name
                            THEN got.permissions \cup UNION {cache[j] : j \in DOMAIN cache}
                            ELSE cache[k]]]

\* one iteration of "for role_name in roles": the cache after the i-th role,
\* or the exception get_all_permissions raised
build_step(roles, hierarchy, cache, i) ==
    LET got == get_all_permissions(roles, hierarchy, roles[i].name, {})
    IN  IF got.raised THEN [exc |-> "AttributeError", cache |-> cache]
        ELSE [exc |-> "",
              cache |-> [k \in DOMAIN cache \cup {roles[i].name} |->
                            IF k = roles[i].name THEN got.permissions ELSE cache[k]]]

\* the loop from its i-th iteration on, stopping at the first exception
RECURSIVE build_from(_, _, _, _)
build_from(roles, hierarchy, cache, i) ==
    IF i > Len(roles) THEN [exc |-> "", cache |-> cache]
    ELSE LET step == build_step(roles, hierarchy, cache, i)
         IN  IF step.exc # "" THEN step
             ELSE build_from(roles, hierarchy, step.cache, i + 1)

\* _build_permission_cache on an engine whose cache is `cache`:
\* self._config.get raises AttributeError when the config is None
_build_permission_cache(config, cache) ==
    IF config.kind = "None" THEN [exc |-> "AttributeError", cache |-> cache]
    ELSE build_from(config.roles, config.hierarchy, cache, 1)

(***************************************************************************)
(* PolicyEngine objects and _load_config.                                  *)
(***************************************************************************)
\* a PolicyEngine as object.__new__ leaves it: _config is the class
\* attribute None, _permission_cache does not exist
NewEngine == [_config |-> NoneConfig, has_cache |-> FALSE, _permission_cache |-> EmptyDict]

\* lines 69-73 of _load_config: the config is stored, the cache is reset and
\* built; `built` is what _build_permission_cache did to the empty cache
load_parsed(config, built) ==
    [exc |-> built.exc,
     self |-> [_config |-> config, has_cache |-> TRUE, _permission_cache |-> built.cache]]

\* a plausible slip: a missing roles.yaml is skipped without an error
_load_config_MissingIsSkipped(self, src) ==
    IF ~src.exists THEN [exc |-> "", self |-> self]
    ELSE IF ~src.parsable THEN [exc |-> "YAMLError", self |-> self]
    ELSE load_parsed(src.content, _build_permission_cache(src.content, EmptyDict))

\* a plausible slip: an engine that holds a cache is not loaded again
_load_config_SkipsWhenLoaded(self, src) ==
    IF ~src.exists THEN [exc |-> "FileNotFoundError", self |-> self]
    ELSE IF ~src.parsable THEN [exc |-> "YAMLError", self |-> self]
    ELSE IF self.has_cache THEN [exc |-> "", self |-> [self EXCEPT !._config = src.content]]
    ELSE load_parsed(src.content, _build_permission_cache(src.content, EmptyDict))

\* _load_config(self) with roles.yaml as `src`: the engine afterwards and
\* the exception raised ("" for none)
_load_config(self, src) ==
    IF ~src.exists THEN [exc |-> "FileNotFoundError", self |-> self]
    ELSE IF ~src.parsable THEN [exc |-> "YAMLError", self |-> self]
    ELSE load_parsed(src.content, _build_permission_cache(src.content, EmptyDict))

\* a plausible slip: a role missing from the cache falls back to "viewer"
get_role_permissions_UnknownAsViewer(self, role) ==
    IF role \in DOMAIN self._permission_cache THEN self._permission_cache[role]
    ELSE IF "viewer" \in DOMAIN self._permission_cache THEN self._permission_cache["viewer"]
    ELSE {}

\* get_role_permissions(role): self._permission_cache.get(role, set())
get_role_permissions(self, role) ==
    IF role \in DOMAIN self._permission_cache THEN self._permission_cache[role] ELSE {}

\* check_permission(user_roles, permission), the loop "for role in user_roles"
\* from its i-th role on; reading the cache of an engine that has none raises
RECURSIVE check_roles(_, _, _, _, _)
check_roles(self, user_roles, module, action, i) ==
    IF i > Len(user_roles) THEN FALSE
    ELSE IF \E perm \in get_role_permissions(self, user_roles[i]) :
                _matches_permission(perm, module, action)
         THEN TRUE
    ELSE check_roles(self, user_roles, module, action, i + 1)

\* a plausible slip: a permission is granted only for a module that the
\* modules section declares
check_permission_DeclaredModulesOnly(self, user_roles, permission) ==
    LET parsed == _parse_permission(permission)
    IN  /\ self._config.kind = "dict"
        /\ \E i \in 1..Len(self._config.modules) :
               self._config.modules[i].name = parsed[1]
        /\ check_roles(self, user_roles, parsed[1], parsed[2], 1)

\* a plausible slip: only the first role of the list is looked at
check_permission_FirstRoleOnly(self, user_roles, permission) ==
    LET parsed == _parse_permission(permission)
    IN  /\ user_roles # <<>>
        /\ \E perm \in get_role_permissions(self, user_roles[1]) :
               _matches_permission(perm, parsed[1], parsed[2])

check_permission(self, user_roles, permission) ==
    LET parsed == _parse_permission(permission)
    IN  check_roles(self, user_roles, parsed[1], parsed[2], 1)

\* a plausible slip: defaults.get(context) without the fixed default
get_default_role_NoFallback(self, context) ==
    IF self._config.kind = "None" THEN [exc |-> "AttributeError", role |-> ""]
    ELSE IF context \in DOMAIN self._config.defaults
    THEN [exc |-> "", role |-> self._config.defaults[context]]
    ELSE [exc |-> "", role |-> "None"]

\* get_default_role(context): defaults.get(context, "viewer");
\* self._config.get raises AttributeError when the config is None
get_default_role(self, context) ==
    IF self._config.kind = "None" THEN [exc |-> "AttributeError", role |-> ""]
    ELSE IF context \in DOMAIN self._config.defaults
    THEN [exc |-> "", role |-> self._config.defaults[context]]
    ELSE [exc |-> "", role |-> "viewer"]

\* a plausible slip: the entries are made from the keys of the permission
\* cache, which holds no description
list_roles_FromCache(self) ==
    IF self._config.kind = "None" THEN [exc |-> "AttributeError", value |-> <<>>]
    ELSE [exc |-> "",
          value |-> [i \in 1..Len(SelectSeq(self._config.roles,
                                           LAMBDA r : r.name \in DOMAIN self._permission_cache))
                        |-> [name |-> SelectSeq(self._config.roles,
                                                LAMBDA r : r.name \in DOMAIN
                                                    self._permission_cache)[i].name,
                             description |-> ""]]]

\* list_roles(): one {"name", "description"} entry per item of roles, in
\* order; self._config.get and role.get raise AttributeError on None
list_roles(self) ==
    IF self._config.kind = "None" THEN [exc |-> "AttributeError", value |-> <<>>]
    ELSE IF \E i \in 1..Len(self._config.roles) : self._config.roles[i].isNone
    THEN [exc |-> "AttributeError", value |-> <<>>]
    ELSE [exc |-> "",
          value |-> [i \in 1..Len(self._config.roles) |->
                        [name |-> self._config.roles[i].name,
                         description |-> self._config.roles[i].description]]]

\* list_modules(): one {"name", "description", "actions"} entry per item of
\* modules, in order; self._config.get raises AttributeError on None
list_modules(self) ==
    IF self._config.kind = "None" THEN [exc |-> "AttributeError", value |-> <<>>]
    ELSE [exc |-> "",
          value |-> [i \in 1..Len(self._config.modules) |->
                        [name |-> self._config.modules[i].name,
                         description |-> self._config.modules[i].description,
                         actions |-> self._config.modules[i].actions]]]

(***************************************************************************)
(* The singleton and the module-level helpers, each as one sequential      *)
(* call.  A world w is the process state the calls read and write:         *)
(*   w.instance : PolicyEngine._instance (0 is None, else an object id)    *)
(*   w.engine   : the module global _engine (0 is None)                    *)
(*   w.objs     : the PolicyEngine objects, by id                          *)
(* An object created by thread t has id t.                                 *)
(***************************************************************************)
\* __new__(cls): the id of the instance returned, a new one (id t) if
\* PolicyEngine._instance is None
__new__(t, w) == IF w.instance = 0 THEN t ELSE w.instance

\* __init__(self): loads when self._config is None
__init__(self, src) ==
    IF self._config.kind = "None" THEN _load_config(self, src)
    ELSE [exc |-> "", self |-> self]

\* the world after __new__ returned object id and __init__ ended as `loaded`
constructed(id, w, loaded) ==
    [exc |-> loaded.exc,
     self |-> id,
     w |-> [w EXCEPT !.instance = id, !.objs[id] = loaded.self]]

\* PolicyEngine() on thread t: __new__ then __init__ on its result
construct(id, w, src) == constructed(id, w, __init__(w.objs[id], src))

PolicyEngine(t, w, src) == construct(__new__(t, w), w, src)

\* get_engine() after PolicyEngine() ended as `made`: _engine is assigned
\* only if it returned
engine_made(made) ==
    IF made.exc # "" THEN [exc |-> made.exc, self |-> 0, w |-> made.w]
    ELSE [exc |-> "", self |-> made.self, w |-> [made.w EXCEPT !.engine = made.self]]

\* get_engine() on thread t: the engine returned (0 when it raised)
get_engine(t, w, src) ==
    IF w.engine # 0 THEN [exc |-> "", self |-> w.engine, w |-> w]
    ELSE engine_made(PolicyEngine(t, w, src))

\* [default] as get_user_roles returns it, for `default` the outcome of
\* get_default_role in world w
default_roles(default, w) ==
    [exc |-> default.exc,
     roles |-> IF default.exc # "" THEN <<>> ELSE <<default.role>>,
     w |-> w]

\* [get_engine().get_default_role()], get_engine() having ended as `got`
engine_default_roles(got) ==
    IF got.exc # "" THEN [exc |-> got.exc, roles |-> <<>>, w |-> got.w]
    ELSE default_roles(get_default_role(got.w.objs[got.self], "new_user"), got.w)

\* get_user_roles(user): the role list, the exception and the world after
\* (the default-role branch goes through get_engine())
get_user_roles(t, user, w, src) ==
    IF user.roles_attr = "str"
    THEN [exc |-> "", roles |-> <<user.roles>>, w |-> w]
    ELSE IF user.roles_attr # "absent"
    THEN [exc |-> "", roles |-> user.roles, w |-> w]
    ELSE IF user.is_superuser
    THEN [exc |-> "", roles |-> <<"superadmin">>, w |-> w]
    ELSE engine_default_roles(get_engine(t, w, src))

\* what has_permission returns when the user is absent or not authenticated
Denied(w) == [exc |-> "", result |-> FALSE, checked |-> FALSE, roles |-> <<>>, w |-> w]

\* get_engine().check_permission(roles, permission), get_engine() having
\* ended as `got`
engine_check(got, roles, permission) ==
    IF got.exc # ""
    THEN [exc |-> got.exc, result |-> FALSE, checked |-> FALSE, roles |-> roles, w |-> got.w]
    ELSE [exc |-> "",
          result |-> check_permission(got.w.objs[got.self], roles, permission),
          checked |-> TRUE,
          roles |-> roles,
          w |-> got.w]

\* line 237 of has_permission, get_user_roles having ended as `ur`
check_user_roles(t, ur, permission, src) ==
    IF ur.exc # ""
    THEN [exc |-> ur.exc, result |-> FALSE, checked |-> FALSE, roles |-> <<>>, w |-> ur.w]
    ELSE engine_check(get_engine(t, ur.w, src), ur.roles, permission)

\* the rest of has_permission, after the guard on the user
has_permission_roles(t, user, permission, w, src) ==
    check_user_roles(t, get_user_roles(t, user, w, src), permission, src)

\* a plausible slip: is_authenticated is not looked at
has_permission_NoAuthCheck(t, user, permission, w, src) ==
    IF ~user.truthy THEN Denied(w)
    ELSE has_permission_roles(t, user, permission, w, src)

\* has_permission(user, permission): result, whether check_permission was
\* reached and with which role list, the exception and the world after
has_permission(t, user, permission, w, src) ==
    IF ~user.truthy \/ ~user.is_authenticated THEN Denied(w)
    ELSE has_permission_roles(t, user, permission, w, src)

\* a plausible slip: the wrapped function runs before the guard decides
wrapper_CallsFirst(allowed, request, func_result) ==
    IF ~allowed
    THEN [invoked |-> <<request>>, response |-> [kind |-> "forbidden", value |-> "Permission denied"]]
    ELSE [invoked |-> <<request>>, response |-> [kind |-> "returned", value |-> func_result]]

\* a plausible slip: the guard retries the wrapped function
wrapper_Retries(allowed, request, func_result) ==
    IF ~allowed
    THEN [invoked |-> <<>>, response |-> [kind |-> "forbidden", value |-> "Permission denied"]]
    ELSE [invoked |-> <<request, request>>, response |-> [kind |-> "returned", value |-> func_result]]

\* require_permission(permission)(func) called with request, has_permission
\* having returned `allowed`: the calls of func and what the wrapper returns
wrapper(allowed, request, func_result) ==
    IF ~allowed
    THEN [invoked |-> <<>>, response |-> [kind |-> "forbidden", value |-> "Permission denied"]]
    ELSE [invoked |-> <<request>>, response |-> [kind |-> "returned", value |-> func_result]]

\* a plausible slip: the adapter admits every authenticated user
PermissionAuth_AuthenticatedOnly(user, got) ==
    IF ~user.truthy \/ ~user.is_authenticated THEN [kind |-> "None", value |-> ""]
    ELSE [kind |-> "user", value |-> ""]

\* PermissionAuth(permission)(request) for request.user = user, `got` being
\* how has_permission(request.user, permission) ends when line 292 calls it:
\* request.user is returned ("user"), or None, or the exception goes on
PermissionAuth(user, got) ==
    IF ~user.truthy \/ ~user.is_authenticated THEN [kind |-> "None", value |-> ""]
    ELSE IF got.exc # "" THEN [kind |-> "raised", value |-> got.exc]
    ELSE IF got.result THEN [kind |-> "user", value |-> ""]
    ELSE [kind |-> "None", value |-> ""]

(***************************************************************************)
(* State.                                                                  *)
(***************************************************************************)
VARIABLES
    m_rule,      \* _matches_permission: the rule argument
    m_module,    \* _matches_permission: the module argument
    m_action,    \* _matches_permission: the action argument
    m_pc,        \* "call" before the function ran, "return" after
    m_result,    \* the value _matches_permission returned
    source,      \* roles.yaml on disk
    world,       \* PolicyEngine._instance, _engine and the engine objects
    c_op,        \* the last call completed
    c_exc,       \* the exception it raised, "" for none
    c_result,    \* the boolean it returned
    c_checked,   \* has_permission: whether check_permission was reached
    c_roles,     \* the role list check_permission was called with; for
                 \* get_default_role, the list of the role it returned
    c_permission,\* the permission asked for
    c_user,      \* the user of has_permission / of the request
    c_args,      \* wrapper: the arguments the caller passed after the request;
                 \* get_default_role: the context passed
    c_before,    \* reload: the engine object before the call
    c_value,     \* list_roles: the list it returned
    w_invoked,   \* wrapper: the calls of the wrapped function, in order
    w_returned,  \* wrapper: what the wrapped function returned
    w_response,  \* wrapper: what the wrapper returned
    t_pc,        \* per thread: the line it is at, "idle" between calls
    t_loc,       \* per thread: its local variables
    published,   \* the permission cache of the last build that completed
    n_builds,    \* builds of the cache completed on the first-access path
    mw_instance, \* ModelWrapper._instance (0 is None, else the id of a model)
    mw_loaded,   \* ModelWrapper._loaded
    mw_lock,     \* ModelWrapper._lock: the thread holding it, 0 when free
    mw_loads,    \* the calls of ModelWrapper._loader so far
    rows,        \* the SiteSettings table: primary key -> row; site_name is
                 \* 0 for the field default and n for the value of the n-th save
    site_cache,  \* the cache entry "site_settings" (NoRow when absent)
    last_saved   \* the values of the last save() that returned (0 for none)

matchVars == <<m_rule, m_module, m_action, m_pc, m_result>>

engineVars == <<source, world>>

callVars == <<c_op, c_exc, c_result, c_checked, c_roles, c_permission, c_user,
              c_args, c_before, c_value, w_invoked, w_returned, w_response>>

concVars == <<t_pc, t_loc, published, n_builds>>

wrapperVars == <<mw_instance, mw_loaded, mw_lock, mw_loads>>

settingsVars == <<rows, site_cache, last_saved>>

vars == <<matchVars, engineVars, callVars, concVars, wrapperVars, settingsVars>>

(***************************************************************************)
(* Bounded inputs.                                                         *)
(***************************************************************************)
\* role names; "ghost" is never declared under roles
NameOrder == <<"superadmin", "editor", "viewer", "ghost">>
Names == Range(NameOrder)
DeclaredOrder == <<"superadmin", "editor", "viewer">>

\* permission rules of the configurations
RuleAll == <<"*", ":", "*">>
RuleAab == <<"a", ":", "a", ",", "b">>
RuleAa == <<"a", ":", "a">>
RuleAb == <<"a", ":", "b">>
RuleB == <<"b">>

DirectPermissions ==
    [n \in Range(DeclaredOrder) |->
        CASE n = "superadmin" -> <<RuleAll>>
          [] n = "editor" -> <<RuleAb, RuleB>>
          [] n = "viewer" -> <<RuleAa>>]

ReducedPermissions ==
    [n \in Range(DeclaredOrder) |->
        CASE n = "superadmin" -> <<RuleAll>>
          [] n = "editor" -> <<RuleB>>
          [] n = "viewer" -> <<>>]

\* the descriptions of the declared roles; "editor" has none
Descriptions ==
    [n \in Range(DeclaredOrder) |->
        CASE n = "superadmin" -> "Full access"
          [] n = "editor" -> ""
          [] n = "viewer" -> "Read only"]

\* modules sections: module "a" with action "a" declared; modules "a" and
\* "b" declared; no modules key (module "b" and action "c" are requested
\* in checks and declared by neither)
ModulesA == <<[name |-> <<"a">>, description |-> "Module a", actions |-> <<<<"a">>>>]>>
ModulesAB ==
    <<[name |-> <<"a">>, description |-> "Module a", actions |-> <<<<"a">>, <<"b">>>>],
      [name |-> <<"b">>, description |-> "", actions |-> <<<<"a">>>>]>>
NoModules == <<>>
ModulesSections == {NoModules, ModulesA, ModulesAB}

\* the elements of S as a list
ListOf(S) == SelectSeq(NameOrder, LAMBDA n : n \in S)

\* the roles section: declared roles in order, those of noneBodies without body
MkRoles(permissions, noneBodies) ==
    [i \in 1..Len(DeclaredOrder) |->
        [name |-> DeclaredOrder[i],
         isNone |-> DeclaredOrder[i] \in noneBodies,
         description |-> Descriptions[DeclaredOrder[i]],
         permissions |-> permissions[DeclaredOrder[i]]]]

\* the hierarchy section with an inherits entry for every edge <<role, parent>>
MkHierarchy(edges) ==
    [n \in {e[1] : e \in edges} |->
        [inherits |-> ListOf({e[2] : e \in {x \in edges : x[1] = n}})]]

MkConfig(permissions, noneBodies, edges, defaults) ==
    [kind |-> "dict",
     roles |-> MkRoles(permissions, noneBodies),
     hierarchy |-> MkHierarchy(edges),
     modules |-> ModulesA,
     defaults |-> defaults]

File(content) == [exists |-> TRUE, parsable |-> TRUE, content |-> content]
Missing == [exists |-> FALSE, parsable |-> FALSE, content |-> NoneConfig]
Unparsable == [exists |-> TRUE, parsable |-> FALSE, content |-> NoneConfig]

NewUserEditor == [c \in {"new_user"} |-> "editor"]
NoDefaults == [c \in {} |-> ""]

\* a configuration that declares superadmin and editor only
WithoutViewer ==
    [kind |-> "dict",
     roles |-> SubSeq(MkRoles(ReducedPermissions, {}), 1, 2),
     hierarchy |-> MkHierarchy({}),
     modules |-> ModulesA,
     defaults |-> NoDefaults]

\* roles.yaml as the sequential specification sees it
Sources ==
    { Missing, Unparsable, File(NoneConfig), File(WithoutViewer),
      File(MkConfig(DirectPermissions, {}, {<<"editor", "viewer">>}, NewUserEditor)),
      File([MkConfig(DirectPermissions, {}, {<<"editor", "viewer">>}, NewUserEditor)
               EXCEPT !.modules = ModulesAB]),
      File(MkConfig(ReducedPermissions, {}, {<<"editor", "viewer">>}, NoDefaults)),
      File(MkConfig(DirectPermissions, {"editor"}, {}, NoDefaults)),
      File(MkConfig(DirectPermissions, {},
                    {<<"editor", "ghost">>, <<"ghost", "viewer">>}, NoDefaults)) }

\* roles.yaml of the concurrent specifications
BaseSource ==
    File(MkConfig(DirectPermissions, {}, {<<"editor", "viewer">>}, NewUserEditor))
ReducedSource ==
    File(MkConfig(ReducedPermissions, {}, {<<"editor", "viewer">>}, NoDefaults))
BrokenSource == File(MkConfig(DirectPermissions, {"editor"}, {}, NoDefaults))
ValidSources == {BaseSource, ReducedSource}
ReloadSources == {BaseSource, ReducedSource, BrokenSource, Missing}
FirstSources == {BaseSource, BrokenSource, Missing, Unparsable, File(NoneConfig)}

\* the checks the threads make
ConcRoleLists == {<<"editor">>, <<"ghost", "viewer">>}
ConcPermissions == {<<"a", ":", "a">>, <<"b", ":", "c">>}

\* roles.yaml for the resolver: every hierarchy of at most MaxEdges edges
Edges == Names \X Names
\* viewer inherits editor, and editor has an entry with an empty inherits list
EmptyInherits ==
    [MkConfig(DirectPermissions, {}, {}, NoDefaults) EXCEPT
        !.hierarchy = [n \in {"editor", "viewer"} |->
                          [inherits |-> IF n = "viewer" THEN <<"editor">> ELSE <<>>]]]

\* permissions without a wildcard: each declared role grants one thing
ChainPermissions ==
    [n \in Range(DeclaredOrder) |->
        CASE n = "superadmin" -> <<RuleB>>
          [] n = "editor" -> <<RuleAb>>
          [] n = "viewer" -> <<RuleAa>>]

\* the chain superadmin inherits editor inherits viewer, in part or closed
\* to a cycle
ChainEdges == {<<"superadmin", "editor">>, <<"editor", "viewer">>, <<"viewer", "superadmin">>}

HierarchySources ==
    { File(MkConfig(DirectPermissions, {}, edges, NoDefaults)) :
        edges \in {E \in SUBSET Edges : Cardinality(E) <= MaxEdges} }
    \cup { File(MkConfig(ChainPermissions, {}, edges, NoDefaults)) :
              edges \in SUBSET ChainEdges }
    \cup {File(EmptyInherits)}

ListsUpTo(S, n) == UNION {[1..k -> S] : k \in 0..n}

RoleLists == ListsUpTo(Names, MaxRoles)

RequestedPermissions ==
    { <<"a", ":", "a">>, <<"a", ":", "b">>, <<"b", ":", "c">>, <<"a">> }

\* users: a falsy user (None), and user objects by what get_user_roles and
\* has_permission read of them; an absent is_superuser reads as false
Users ==
    [truthy : BOOLEAN, is_authenticated : BOOLEAN, is_superuser : BOOLEAN,
     roles_attr : {"absent"}, roles : {<<>>}]
    \cup [truthy : BOOLEAN, is_authenticated : BOOLEAN, is_superuser : BOOLEAN,
          roles_attr : {"str"}, roles : Names]
    \cup [truthy : BOOLEAN, is_authenticated : BOOLEAN, is_superuser : BOOLEAN,
          roles_attr : {"list", "callable"}, roles : ListsUpTo(Names, MaxUserRoles)]

NoUser == [truthy |-> FALSE, is_authenticated |-> FALSE, is_superuser |-> FALSE,
           roles_attr |-> "absent", roles |-> <<>>]

\* the contexts get_default_role is asked about
Contexts == {"new_user", "api"}

\* the arguments a caller passes to a wrapped view after the request
RequestArgs == {<<>>, <<"post_id">>}

\* what the wrapped function may return
FuncResults == {"ok", "created"}

(***************************************************************************)
(* Initial states.                                                         *)
(***************************************************************************)
MatchIdle ==
    /\ m_rule = <<>>
    /\ m_module = <<>>
    /\ m_action = <<>>
    /\ m_pc = "idle"
    /\ m_result = FALSE

\* nothing constructed yet: no instance, no engine
EngineStart ==
    world = [instance |-> 0, engine |-> 0, objs |-> [i \in 1..NThreads |-> NewEngine]]

CallIdle ==
    /\ c_op = "none"
    /\ c_exc = ""
    /\ c_result = FALSE
    /\ c_checked = FALSE
    /\ c_roles = <<>>
    /\ c_permission = <<>>
    /\ c_user = NoUser
    /\ c_args = <<>>
    /\ c_before = NewEngine
    /\ c_value = <<>>
    /\ w_invoked = <<>>
    /\ w_returned = <<>>
    /\ w_response = [kind |-> "none", value |-> ""]

Threads == 1..NThreads

\* no SiteSettings object (None, or a missing cache entry)
NoRow == [pk |-> 0, site_name |-> 0]

\* a ModelWrapper as __init__ leaves it (lines 45-50)
WrapperNew ==
    /\ mw_instance = 0
    /\ mw_loaded = FALSE
    /\ mw_lock = 0
    /\ mw_loads = 0

\* an empty table and an empty cache
SettingsEmpty ==
    /\ rows = [pk \in {} |-> NoRow]
    /\ site_cache = NoRow
    /\ last_saved = 0

\* the locals of a thread that has made no call
NoLocals ==
    [flow |-> "none", self |-> 0, engine |-> 0, roles |-> <<>>, hierarchy |-> EmptyDict,
     i |-> 0, has_target |-> FALSE, target |-> EmptyDict,
     user_roles |-> <<>>, permission |-> <<>>, op |-> "none", exc |-> "",
     result |-> FALSE, tracked |-> FALSE, allowed |-> {}, calls |-> 0,
     stack |-> <<>>, role_name |-> "", visited |-> {}, ret |-> {},
     instance |-> 0, cached |-> NoRow, settings |-> NoRow, floor |-> 0]

NoSnapshot == [exists |-> FALSE, cache |-> EmptyDict]

ConcIdle ==
    /\ t_pc = [t \in Threads |-> "idle"]
    /\ t_loc = [t \in Threads |-> NoLocals]
    /\ published = NoSnapshot
    /\ n_builds = 0

(***************************************************************************)
(* The matcher on its own: every rule string of the bounded alphabet       *)
(* against requested modules and actions.                                  *)
(***************************************************************************)
\* requested modules and actions (action "c" occurs in no rule)
RequestedModules == {<<"a">>, <<"b">>, Star}
RequestedActions == {<<"a">>, <<"b">>, <<"c">>, Star, <<"a", ",", "b">>}

MatchInit ==
    /\ m_rule \in StringsUpTo(MaxLen)
    /\ m_module \in RequestedModules
    /\ m_action \in RequestedActions
    /\ m_pc = "call"
    /\ m_result = FALSE
    /\ source = Missing
    /\ EngineStart
    /\ CallIdle
    /\ WrapperNew
    /\ SettingsEmpty
    /\ ConcIdle

MatchCall ==
    /\ m_pc = "call"
    /\ m_result' = _matches_permission(m_rule, m_module, m_action)
    /\ m_pc' = "return"
    /\ UNCHANGED <<m_rule, m_module, m_action, engineVars, callVars, concVars,
                   wrapperVars, settingsVars>>

MatchNext == MatchCall

SpecMatch == MatchInit /\ [][MatchNext]_vars

(***************************************************************************)
(* The engine and its helpers, one call at a time (a single thread, 1):     *)
(* the thread makes a call, the call record holds what it did, and the     *)
(* thread goes on to its next call.                                        *)
(***************************************************************************)
\* the call record of a call that is no has_permission / wrapper call
Record(op, exc, result, roles, permission, before) ==
    /\ c_op' = op
    /\ c_exc' = exc
    /\ c_result' = result
    /\ c_checked' = FALSE
    /\ c_roles' = roles
    /\ c_permission' = permission
    /\ c_user' = NoUser
    /\ c_args' = <<>>
    /\ c_before' = before
    /\ c_value' = <<>>
    /\ w_invoked' = <<>>
    /\ w_returned' = <<>>
    /\ w_response' = [kind |-> "none", value |-> ""]

\* roles.yaml is edited, replaced or removed
EditSource ==
    /\ c_op = "none"
    /\ \E s \in Sources \ {source} : source' = s
    /\ UNCHANGED <<matchVars, wrapperVars, settingsVars, world, callVars, concVars>>

\* get_engine()
GetEngineDone(got) ==
    /\ world' = got.w
    /\ Record("get_engine", got.exc, FALSE, <<>>, <<>>, NewEngine)

GetEngine ==
    /\ c_op = "none"
    /\ GetEngineDone(get_engine(1, world, source))
    /\ UNCHANGED <<matchVars, wrapperVars, settingsVars, source, concVars>>

\* engine._load_config() on the engine get_engine() returned: a reload
ReloadDone(self, loaded) ==
    /\ world' = [world EXCEPT !.objs[world.engine] = loaded.self]
    /\ Record("reload", loaded.exc, FALSE, <<>>, <<>>, self)

Reload ==
    /\ c_op = "none"
    /\ world.engine # 0
    /\ ReloadDone(world.objs[world.engine],
                  _load_config(world.objs[world.engine], source))
    /\ UNCHANGED <<matchVars, wrapperVars, settingsVars, source, concVars>>

\* engine.check_permission(user_roles, permission)
CheckPermission ==
    /\ c_op = "none"
    /\ world.engine # 0
    /\ \E user_roles \in RoleLists, permission \in RequestedPermissions :
          Record("check_permission", "",
                 check_permission(world.objs[world.engine], user_roles, permission),
                 user_roles, permission, NewEngine)
    /\ UNCHANGED <<matchVars, wrapperVars, settingsVars, engineVars, concVars>>

\* the call record of get_default_role(context) ended as `got`
GetDefaultRoleDone(context, got) ==
    /\ c_op' = "get_default_role"
    /\ c_exc' = got.exc
    /\ c_result' = FALSE
    /\ c_checked' = FALSE
    /\ c_roles' = IF got.exc # "" THEN <<>> ELSE <<got.role>>
    /\ c_permission' = <<>>
    /\ c_user' = NoUser
    /\ c_args' = <<context>>
    /\ c_before' = NewEngine
    /\ c_value' = <<>>
    /\ w_invoked' = <<>>
    /\ w_returned' = <<>>
    /\ w_response' = [kind |-> "none", value |-> ""]

\* engine.get_default_role(context)
GetDefaultRole ==
    /\ c_op = "none"
    /\ world.engine # 0
    /\ \E context \in Contexts :
          GetDefaultRoleDone(context, get_default_role(world.objs[world.engine], context))
    /\ UNCHANGED <<matchVars, wrapperVars, settingsVars, engineVars, concVars>>

\* the call record of a list_roles() or list_modules() call ended as `got`
ListDone(op, got) ==
    /\ c_op' = op
    /\ c_exc' = got.exc
    /\ c_result' = FALSE
    /\ c_checked' = FALSE
    /\ c_roles' = <<>>
    /\ c_permission' = <<>>
    /\ c_user' = NoUser
    /\ c_args' = <<>>
    /\ c_before' = NewEngine
    /\ c_value' = got.value
    /\ w_invoked' = <<>>
    /\ w_returned' = <<>>
    /\ w_response' = [kind |-> "none", value |-> ""]

\* engine.list_roles()
ListRoles ==
    /\ c_op = "none"
    /\ world.engine # 0
    /\ ListDone("list_roles", list_roles(world.objs[world.engine]))
    /\ UNCHANGED <<matchVars, wrapperVars, settingsVars, engineVars, concVars>>

\* engine.list_modules()
ListModules ==
    /\ c_op = "none"
    /\ world.engine # 0
    /\ ListDone("list_modules", list_modules(world.objs[world.engine]))
    /\ UNCHANGED <<matchVars, wrapperVars, settingsVars, engineVars, concVars>>

\* the call record of has_permission(user, permission) ended as `got`
HasPermissionDone(op, user, permission, got) ==
    /\ world' = got.w
    /\ c_op' = op
    /\ c_exc' = got.exc
    /\ c_result' = got.result
    /\ c_checked' = got.checked
    /\ c_roles' = got.roles
    /\ c_permission' = permission
    /\ c_user' = user
    /\ c_before' = NewEngine
    /\ c_value' = <<>>

\* has_permission(user, permission)
HasPermission ==
    /\ c_op = "none"
    /\ \E user \in Users, permission \in RequestedPermissions :
          HasPermissionDone("has_permission", user, permission,
                            has_permission(1, user, permission, world, source))
    /\ c_args' = <<>>
    /\ w_invoked' = <<>>
    /\ w_returned' = <<>>
    /\ w_response' = [kind |-> "none", value |-> ""]
    /\ UNCHANGED <<matchVars, wrapperVars, settingsVars, source, concVars>>

\* the wrapper after has_permission ended as `got`: an exception of
\* has_permission leaves the wrapper before func is reached
WrapperDone(got, out, func_result) ==
    /\ w_invoked' = IF got.exc # "" THEN <<>> ELSE out.invoked
    /\ w_returned' = IF got.exc # "" THEN <<>>
                     ELSE [i \in 1..Len(out.invoked) |-> func_result]
    /\ w_response' = IF got.exc # "" THEN [kind |-> "raised", value |-> got.exc]
                     ELSE out.response

WrapperCall(user, args, permission, func_result, got) ==
    /\ HasPermissionDone("wrapper", user, permission, got)
    /\ c_args' = args
    /\ WrapperDone(got, wrapper(got.result, [user |-> user, args |-> args], func_result),
                   func_result)

\* a view wrapped by require_permission(permission) is called with a request
Wrapper ==
    /\ c_op = "none"
    /\ \E user \in Users, args \in RequestArgs, permission \in RequestedPermissions,
          func_result \in FuncResults :
          WrapperCall(user, args, permission, func_result,
                      has_permission(1, user, permission, world, source))
    /\ UNCHANGED <<matchVars, wrapperVars, settingsVars, source, concVars>>

\* the call record of PermissionAuth(permission)(request): has_permission
\* is not called when line 289 returns None
AuthCall(user, permission, got) ==
    /\ HasPermissionDone("auth", user, permission,
                         IF ~user.truthy \/ ~user.is_authenticated THEN Denied(world)
                         ELSE got)
    /\ c_args' = <<>>
    /\ w_invoked' = <<>>
    /\ w_returned' = <<>>
    /\ w_response' = PermissionAuth(user, got)

\* an endpoint with auth=PermissionAuth(permission) receives a request
Auth ==
    /\ c_op = "none"
    /\ \E user \in Users, permission \in RequestedPermissions :
          AuthCall(user, permission, has_permission(1, user, permission, world, source))
    /\ UNCHANGED <<matchVars, wrapperVars, settingsVars, source, concVars>>

\* the caller has its result and goes on to its next call
Continue ==
    /\ c_op # "none"
    /\ c_op' = "none"
    /\ c_exc' = ""
    /\ c_result' = FALSE
    /\ c_checked' = FALSE
    /\ c_roles' = <<>>
    /\ c_permission' = <<>>
    /\ c_user' = NoUser
    /\ c_args' = <<>>
    /\ c_before' = NewEngine
    /\ c_value' = <<>>
    /\ w_invoked' = <<>>
    /\ w_returned' = <<>>
    /\ w_response' = [kind |-> "none", value |-> ""]
    /\ UNCHANGED <<matchVars, wrapperVars, settingsVars, engineVars, concVars>>

Init ==
    /\ MatchIdle
    /\ source \in Sources
    /\ EngineStart
    /\ CallIdle
    /\ WrapperNew
    /\ SettingsEmpty
    /\ ConcIdle

Next ==
    \/ EditSource
    \/ GetEngine
    \/ Reload
    \/ CheckPermission
    \/ GetDefaultRole
    \/ ListRoles
    \/ ListModules
    \/ HasPermission
    \/ Wrapper
    \/ Auth
    \/ Continue

Spec == Init /\ [][Next]_vars

(***************************************************************************)
(* The resolver on its own: the first construction of the engine over      *)
(* every hierarchy of the bound.                                           *)
(***************************************************************************)
ResolveInit ==
    /\ MatchIdle
    /\ source \in HierarchySources
    /\ EngineStart
    /\ CallIdle
    /\ WrapperNew
    /\ SettingsEmpty
    /\ ConcIdle

ResolveNext == GetEngine

SpecResolve == ResolveInit /\ [][ResolveNext]_vars

(***************************************************************************)
(* Threads.  A step is one statement of engine.py; between two steps any   *)
(* other thread may run (the interpreter switches threads between          *)
(* bytecodes, and reading the file releases the interpreter lock).         *)
(* t_loc[t].flow tells which call the thread is in: "get_engine" (the      *)
(* first-access path get_engine -> PolicyEngine() -> _load_config),        *)
(* "reload" (_load_config on a constructed engine) or "check".             *)
(***************************************************************************)
\* thread t moves to line pc with locals loc
Goto(t, pc, loc) ==
    /\ t_pc' = [t_pc EXCEPT ![t] = pc]
    /\ t_loc' = [t_loc EXCEPT ![t] = loc]

\* the call of thread t ends with exception exc
Raise(t, exc) ==
    Goto(t, "idle", [t_loc[t] EXCEPT !.exc = exc, !.roles = <<>>,
                                     !.hierarchy = EmptyDict, !.i = 0,
                                     !.has_target = FALSE, !.target = EmptyDict,
                                     !.stack = <<>>, !.role_name = "",
                                     !.visited = {}, !.ret = {}])

\* an engine object holding `cache`, for check_permission on a snapshot
Snapshot(cache) == [NewEngine EXCEPT !.has_cache = TRUE, !._permission_cache = cache]

\* the results a check of (user_roles, permission) may give on the complete
\* snapshots: the published one and the ones reloads in progress are building
TargetResults(locs, user_roles, permission) ==
    {check_permission(Snapshot(locs[u].target), user_roles, permission) :
        u \in {v \in Threads : locs[v].has_target}}

\* thread t calls get_engine()
StartGetEngine(t) ==
    /\ t_pc[t] = "idle"
    /\ t_loc[t].calls < MaxCalls
    /\ Goto(t, "ge_check", [t_loc[t] EXCEPT !.flow = "get_engine", !.op = "get_engine",
                                            !.exc = "", !.calls = @ + 1])
    /\ UNCHANGED <<matchVars, wrapperVars, settingsVars, engineVars, callVars, published, n_builds>>

\* line 190: if _engine is None
GeCheck(t) ==
    /\ t_pc[t] = "ge_check"
    /\ Goto(t, IF world.engine = 0 THEN "new_check" ELSE "ge_return", t_loc[t])
    /\ UNCHANGED <<matchVars, wrapperVars, settingsVars, engineVars, callVars, published, n_builds>>

\* line 53: if cls._instance is None
NewCheck(t) ==
    /\ t_pc[t] = "new_check"
    /\ Goto(t, IF world.instance = 0 THEN "new_create" ELSE "new_return", t_loc[t])
    /\ UNCHANGED <<matchVars, wrapperVars, settingsVars, engineVars, callVars, published, n_builds>>

\* line 54: cls._instance = super().__new__(cls)
NewCreate(t) ==
    /\ t_pc[t] = "new_create"
    /\ world' = [world EXCEPT !.instance = t, !.objs[t] = NewEngine]
    /\ Goto(t, "new_return", t_loc[t])
    /\ UNCHANGED <<matchVars, wrapperVars, settingsVars, source, callVars, published, n_builds>>

\* line 55: return cls._instance; __init__ runs on the object returned
NewReturn(t) ==
    /\ t_pc[t] = "new_return"
    /\ Goto(t, "init_check", [t_loc[t] EXCEPT !.self = world.instance])
    /\ UNCHANGED <<matchVars, wrapperVars, settingsVars, engineVars, callVars, published, n_builds>>

\* line 58: if self._config is None
InitCheck(t) ==
    /\ t_pc[t] = "init_check"
    /\ Goto(t, IF world.objs[t_loc[t].self]._config.kind = "None"
               THEN "load_exists" ELSE "ge_assign", t_loc[t])
    /\ UNCHANGED <<matchVars, wrapperVars, settingsVars, engineVars, callVars, published, n_builds>>

\* lines 65-66: if not config_path.exists(): raise FileNotFoundError
LoadExists(t) ==
    /\ t_pc[t] = "load_exists"
    /\ IF source.exists THEN Goto(t, "load_parse", t_loc[t])
       ELSE Raise(t, "FileNotFoundError")
    /\ UNCHANGED <<matchVars, wrapperVars, settingsVars, engineVars, callVars, published, n_builds>>

\* the locals of thread u once a reload has parsed a configuration whose
\* complete cache is `built`: a check in progress may now give the result of
\* the snapshot the reload is building
SeesTarget(loc, built) ==
    IF loc.flow = "check" /\ built.exc = ""
    THEN [loc EXCEPT !.allowed =
              @ \cup {check_permission(Snapshot(built.cache), loc.user_roles, loc.permission)}]
    ELSE loc

\* the locals of the reloading thread after it parsed: the snapshot it builds
WithTarget(loc, built) ==
    IF loc.flow = "reload" /\ built.exc = ""
    THEN [loc EXCEPT !.has_target = TRUE, !.target = built.cache]
    ELSE loc

Parsed(t, built) ==
    /\ t_pc' = [t_pc EXCEPT ![t] = "load_reset"]
    /\ t_loc' = [u \in Threads |->
                    IF u = t THEN WithTarget(t_loc[t], built)
                    ELSE IF t_loc[t].flow = "reload" THEN SeesTarget(t_loc[u], built)
                    ELSE t_loc[u]]

\* lines 68-69: self._config = yaml.safe_load(f)
LoadParse(t) ==
    /\ t_pc[t] = "load_parse"
    /\ IF ~source.exists
       THEN Raise(t, "FileNotFoundError") /\ UNCHANGED world
       ELSE IF ~source.parsable
       THEN Raise(t, "YAMLError") /\ UNCHANGED world
       ELSE /\ world' = [world EXCEPT !.objs[t_loc[t].self]._config = source.content]
            /\ Parsed(t, _build_permission_cache(source.content, EmptyDict))
    /\ UNCHANGED <<matchVars, wrapperVars, settingsVars, source, callVars, published, n_builds>>

\* line 72: self._permission_cache = {}
LoadReset(t) ==
    /\ t_pc[t] = "load_reset"
    /\ world' = [world EXCEPT !.objs[t_loc[t].self].has_cache = TRUE,
                              !.objs[t_loc[t].self]._permission_cache = EmptyDict]
    /\ Goto(t, "build_start", t_loc[t])
    /\ UNCHANGED <<matchVars, wrapperVars, settingsVars, source, callVars, published, n_builds>>

\* lines 77-78: roles = self._config.get("roles", {}); hierarchy = ...
BuildStart(t) ==
    /\ t_pc[t] = "build_start"
    /\ IF world.objs[t_loc[t].self]._config.kind = "None"
       THEN Raise(t, "AttributeError")
       ELSE Goto(t, "build_loop",
                 [t_loc[t] EXCEPT !.roles = world.objs[t_loc[t].self]._config.roles,
                                  !.hierarchy = world.objs[t_loc[t].self]._config.hierarchy,
                                  !.i = 1])
    /\ UNCHANGED <<matchVars, wrapperVars, settingsVars, engineVars, callVars, published, n_builds>>

\* the effect of one iteration, `step` being what build_step computed
BuildStored(t, step) ==
    IF step.exc # ""
    THEN Raise(t, step.exc) /\ UNCHANGED world
    ELSE /\ world' = [world EXCEPT !.objs[t_loc[t].self]._permission_cache = step.cache]
         /\ Goto(t, "build_loop", [t_loc[t] EXCEPT !.i = @ + 1])

\* lines 103-104: self._permission_cache[role_name] = get_all_permissions(role_name)
BuildRole(t) ==
    /\ t_pc[t] = "build_loop"
    /\ t_loc[t].i <= Len(t_loc[t].roles)
    /\ BuildStored(t, build_step(t_loc[t].roles, t_loc[t].hierarchy,
                                 world.objs[t_loc[t].self]._permission_cache, t_loc[t].i))
    /\ UNCHANGED <<matchVars, wrapperVars, settingsVars, source, callVars, published, n_builds>>

\* the loop of line 103 is over: _load_config returns
BuildDone(t) ==
    /\ t_pc[t] = "build_loop"
    /\ t_loc[t].i > Len(t_loc[t].roles)
    /\ published' = [exists |-> TRUE, cache |-> world.objs[t_loc[t].self]._permission_cache]
    /\ n_builds' = IF t_loc[t].flow = "get_engine" THEN n_builds + 1 ELSE n_builds
    /\ Goto(t, IF t_loc[t].flow = "get_engine" THEN "ge_assign" ELSE "idle",
            [t_loc[t] EXCEPT !.roles = <<>>, !.hierarchy = EmptyDict, !.i = 0,
                             !.has_target = FALSE, !.target = EmptyDict])
    /\ UNCHANGED <<matchVars, wrapperVars, settingsVars, engineVars, callVars>>

\* line 191: _engine = PolicyEngine()
GeAssign(t) ==
    /\ t_pc[t] = "ge_assign"
    /\ world' = [world EXCEPT !.engine = t_loc[t].self]
    /\ Goto(t, "ge_return", t_loc[t])
    /\ UNCHANGED <<matchVars, wrapperVars, settingsVars, source, callVars, published, n_builds>>

\* line 192: return _engine
GeReturn(t) ==
    /\ t_pc[t] = "ge_return"
    /\ Goto(t, "idle", [t_loc[t] EXCEPT !.engine = world.engine])
    /\ UNCHANGED <<matchVars, wrapperVars, settingsVars, engineVars, callVars, published, n_builds>>

\* thread t calls engine._load_config() on the engine it holds: a reload
StartReload(t) ==
    /\ t_pc[t] = "idle"
    /\ t_loc[t].calls < MaxCalls
    /\ t_loc[t].engine # 0
    /\ \A u \in Threads : t_loc[u].flow # "reload" \/ t_pc[u] = "idle"
    /\ Goto(t, "load_exists", [t_loc[t] EXCEPT !.flow = "reload", !.op = "reload",
                                               !.self = t_loc[t].engine,
                                               !.exc = "", !.calls = @ + 1])
    /\ UNCHANGED <<matchVars, wrapperVars, settingsVars, engineVars, callVars, published, n_builds>>

\* thread t calls engine.check_permission(user_roles, permission), line 121
StartCheck(t) ==
    /\ t_pc[t] = "idle"
    /\ t_loc[t].calls < MaxCalls
    /\ t_loc[t].engine # 0
    /\ \E user_roles \in ConcRoleLists, permission \in ConcPermissions :
          Goto(t, "check_role",
               [t_loc[t] EXCEPT !.flow = "check", !.op = "check_permission",
                                !.self = t_loc[t].engine,
                                !.user_roles = user_roles, !.permission = permission,
                                !.i = 1, !.exc = "", !.result = FALSE,
                                !.tracked = published.exists,
                                !.allowed =
                                    {check_permission(Snapshot(published.cache),
                                                      user_roles, permission)}
                                    \cup TargetResults(t_loc, user_roles, permission),
                                !.calls = @ + 1])
    /\ UNCHANGED <<matchVars, wrapperVars, settingsVars, engineVars, callVars, published, n_builds>>

\* lines 123-128: one iteration of "for role in user_roles": the role's set
\* is read from the cache as it is now, and searched
CheckRole(t) ==
    /\ t_pc[t] = "check_role"
    /\ t_loc[t].i <= Len(t_loc[t].user_roles)
    /\ IF check_permission(world.objs[t_loc[t].self],
                           <<t_loc[t].user_roles[t_loc[t].i]>>, t_loc[t].permission)
       THEN Goto(t, "idle", [t_loc[t] EXCEPT !.result = TRUE, !.i = 0])
       ELSE Goto(t, "check_role", [t_loc[t] EXCEPT !.i = @ + 1])
    /\ UNCHANGED <<matchVars, wrapperVars, settingsVars, engineVars, callVars, published, n_builds>>

\* line 130: return False
CheckDone(t) ==
    /\ t_pc[t] = "check_role"
    /\ t_loc[t].i > Len(t_loc[t].user_roles)
    /\ Goto(t, "idle", [t_loc[t] EXCEPT !.result = FALSE, !.i = 0])
    /\ UNCHANGED <<matchVars, wrapperVars, settingsVars, engineVars, callVars, published, n_builds>>

\* roles.yaml is replaced while the threads run
WriteSource ==
    /\ \E s \in ReloadSources \ {source} : source' = s
    /\ UNCHANGED <<matchVars, wrapperVars, settingsVars, world, callVars, concVars>>

(***************************************************************************)
(* First access: the threads call get_engine() on a fresh process.         *)
(***************************************************************************)
FirstInit ==
    /\ MatchIdle
    /\ source \in FirstSources
    /\ EngineStart
    /\ CallIdle
    /\ WrapperNew
    /\ SettingsEmpty
    /\ ConcIdle

FirstNext ==
    \E t \in Threads :
        \/ StartGetEngine(t)
        \/ GeCheck(t)
        \/ NewCheck(t)
        \/ NewCreate(t)
        \/ NewReturn(t)
        \/ InitCheck(t)
        \/ LoadExists(t)
        \/ LoadParse(t)
        \/ LoadReset(t)
        \/ BuildStart(t)
        \/ BuildRole(t)
        \/ BuildDone(t)
        \/ GeAssign(t)
        \/ GeReturn(t)

SpecFirst == FirstInit /\ [][FirstNext]_vars

(***************************************************************************)
(* Reload: the engine is Ready (get_engine() has returned it to every      *)
(* thread); one thread at a time reloads it while the threads check.       *)
(***************************************************************************)
\* the world after a first get_engine() that succeeded on src
ReadyWorld(src) ==
    get_engine(1, [instance |-> 0, engine |-> 0,
                   objs |-> [i \in Threads |-> NewEngine]], src).w

ReloadInit ==
    /\ MatchIdle
    /\ CallIdle
    /\ WrapperNew
    /\ SettingsEmpty
    /\ source \in ReloadSources
    /\ \E src \in ValidSources :
          /\ world = ReadyWorld(src)
          /\ published = [exists |-> TRUE, cache |-> ReadyWorld(src).objs[1]._permission_cache]
    /\ t_pc = [t \in Threads |-> "idle"]
    /\ t_loc = [t \in Threads |-> [NoLocals EXCEPT !.engine = 1]]
    /\ n_builds = 1

ReloadNext ==
    \/ WriteSource
    \/ \E t \in Threads :
        \/ StartReload(t)
        \/ LoadExists(t)
        \/ LoadParse(t)
        \/ LoadReset(t)
        \/ BuildStart(t)
        \/ BuildRole(t)
        \/ BuildDone(t)
        \/ StartCheck(t)
        \/ CheckRole(t)
        \/ CheckDone(t)

SpecReload == ReloadInit /\ [][ReloadNext]_vars

(***************************************************************************)
(* The build of the cache statement by statement: get_engine() on one      *)
(* thread, with get_all_permissions run on an explicit call stack.  A      *)
(* frame holds the locals of one call: role_name, visited, permissions,    *)
(* the inherits list being iterated and the position k in it.              *)
(***************************************************************************)
\* a plausible slip: the guard against circular inheritance is missing
on_cycle_Never(role_name, visited) == FALSE

\* line 85: if role_name in visited
on_cycle(role_name, visited) == role_name \in visited

\* the locals of thread t with the innermost frame replaced by frame
WithTop(t, frame) == [t_loc[t] EXCEPT !.stack[Len(t_loc[t].stack)] = frame]

\* line 104: get_all_permissions(role_name) is called for the i-th role
LoopCall(t) ==
    /\ t_pc[t] = "build_loop"
    /\ t_loc[t].i <= Len(t_loc[t].roles)
    /\ Goto(t, "gap_call", [t_loc[t] EXCEPT !.role_name = t_loc[t].roles[t_loc[t].i].name,
                                            !.visited = {}])
    /\ UNCHANGED <<matchVars, wrapperVars, settingsVars, engineVars, callVars, published, n_builds>>

\* lines 80-87: the call is entered (RecursionError past the interpreter's
\* limit); a role already visited returns set(), else it is added to visited
GapEnter(t) ==
    /\ t_pc[t] = "gap_call"
    /\ IF Len(t_loc[t].stack) >= RecursionLimit
       THEN Raise(t, "RecursionError")
       ELSE IF on_cycle(t_loc[t].role_name, t_loc[t].visited)
       THEN Goto(t, "gap_return", [t_loc[t] EXCEPT !.ret = {}, !.role_name = "",
                                                   !.visited = {}])
       ELSE Goto(t, "gap_direct",
                 [t_loc[t] EXCEPT
                     !.stack = Append(@, [role_name |-> t_loc[t].role_name,
                                          visited |-> t_loc[t].visited
                                                          \cup {t_loc[t].role_name},
                                          permissions |-> {},
                                          inherits |-> <<>>,
                                          k |-> 0]),
                     !.role_name = "", !.visited = {}])
    /\ UNCHANGED <<matchVars, wrapperVars, settingsVars, engineVars, callVars, published, n_builds>>

\* the frame after lines 89-98: the direct permissions are collected and
\* the inherits list of the role is looked up
direct_frame(frame, roles, hierarchy) ==
    [frame EXCEPT
        !.permissions = IF frame.role_name \in role_names(roles)
                        THEN Range(role_body(roles, frame.role_name).permissions)
                        ELSE {},
        !.inherits = IF frame.role_name \in DOMAIN hierarchy
                     THEN hierarchy[frame.role_name].inherits
                     ELSE <<>>,
        !.k = 1]

\* lines 89-98 (role.get raises AttributeError when the role body is None)
GapDirect(t) ==
    /\ t_pc[t] = "gap_direct"
    /\ IF /\ t_loc[t].stack[Len(t_loc[t].stack)].role_name \in role_names(t_loc[t].roles)
          /\ role_body(t_loc[t].roles,
                       t_loc[t].stack[Len(t_loc[t].stack)].role_name).isNone
       THEN Raise(t, "AttributeError")
       ELSE Goto(t, "gap_parents",
                 WithTop(t, direct_frame(t_loc[t].stack[Len(t_loc[t].stack)],
                                         t_loc[t].roles, t_loc[t].hierarchy)))
    /\ UNCHANGED <<matchVars, wrapperVars, settingsVars, engineVars, callVars, published, n_builds>>

\* line 99: get_all_permissions(parent_role, visited.copy()) is called
GapParent(t) ==
    /\ t_pc[t] = "gap_parents"
    /\ t_loc[t].stack[Len(t_loc[t].stack)].k
          <= Len(t_loc[t].stack[Len(t_loc[t].stack)].inherits)
    /\ Goto(t, "gap_call",
            [t_loc[t] EXCEPT
                !.role_name = t_loc[t].stack[Len(t_loc[t].stack)].inherits[
                                  t_loc[t].stack[Len(t_loc[t].stack)].k],
                !.visited = t_loc[t].stack[Len(t_loc[t].stack)].visited])
    /\ UNCHANGED <<matchVars, wrapperVars, settingsVars, engineVars, callVars, published, n_builds>>

\* line 101: return permissions
GapReturn(t) ==
    /\ t_pc[t] = "gap_parents"
    /\ t_loc[t].stack[Len(t_loc[t].stack)].k
          > Len(t_loc[t].stack[Len(t_loc[t].stack)].inherits)
    /\ Goto(t, "gap_return",
            [t_loc[t] EXCEPT !.ret = t_loc[t].stack[Len(t_loc[t].stack)].permissions,
                             !.stack = SubSeq(@, 1, Len(@) - 1)])
    /\ UNCHANGED <<matchVars, wrapperVars, settingsVars, engineVars, callVars, published, n_builds>>

\* the calling frame after line 99: permissions.update(<returned set>)
updated_frame(frame, ret) ==
    [frame EXCEPT !.permissions = @ \cup ret, !.k = @ + 1]

\* line 99, back in the caller
GapUpdate(t) ==
    /\ t_pc[t] = "gap_return"
    /\ t_loc[t].stack # <<>>
    /\ Goto(t, "gap_parents",
            [WithTop(t, updated_frame(t_loc[t].stack[Len(t_loc[t].stack)], t_loc[t].ret))
                EXCEPT !.ret = {}])
    /\ UNCHANGED <<matchVars, wrapperVars, settingsVars, engineVars, callVars, published, n_builds>>

\* line 104: self._permission_cache[role_name] = <returned set>
LoopStore(t) ==
    /\ t_pc[t] = "gap_return"
    /\ t_loc[t].stack = <<>>
    /\ world' = [world EXCEPT !.objs[t_loc[t].self]._permission_cache =
                     [k \in DOMAIN @ \cup {t_loc[t].roles[t_loc[t].i].name} |->
                         IF k = t_loc[t].roles[t_loc[t].i].name THEN t_loc[t].ret
                         ELSE @[k]]]
    /\ Goto(t, "build_loop", [t_loc[t] EXCEPT !.i = @ + 1, !.ret = {}])
    /\ UNCHANGED <<matchVars, wrapperVars, settingsVars, source, callVars, published, n_builds>>

BuildInit ==
    /\ MatchIdle
    /\ source \in HierarchySources
    /\ EngineStart
    /\ CallIdle
    /\ WrapperNew
    /\ SettingsEmpty
    /\ ConcIdle

BuildNext ==
    \E t \in {1} :
        \/ StartGetEngine(t)
        \/ GeCheck(t)
        \/ NewCheck(t)
        \/ NewCreate(t)
        \/ NewReturn(t)
        \/ InitCheck(t)
        \/ LoadExists(t)
        \/ LoadParse(t)
        \/ LoadReset(t)
        \/ BuildStart(t)
        \/ LoopCall(t)
        \/ GapEnter(t)
        \/ GapDirect(t)
        \/ GapParent(t)
        \/ GapReturn(t)
        \/ GapUpdate(t)
        \/ LoopStore(t)
        \/ BuildDone(t)
        \/ GeAssign(t)
        \/ GeReturn(t)

\* the thread keeps running: a call that can take a step takes it
SpecBuild == BuildInit /\ [][BuildNext]_vars /\ WF_vars(BuildNext)

(***************************************************************************)
(* Properties of the matcher (SpecMatch).                                  *)
(***************************************************************************)
\* the trimmed comma-split action list of a rule, as a set
ActionList(rule) ==
    LET allowed == allowed_actions(_parse_permission(rule)[2])
    IN  {allowed[i] : i \in 1..Len(allowed)}

\* the four cases of the matching policy
FourCases(rule, module, action) ==
    LET rule_module == _parse_permission(rule)[1]
        rule_action == _parse_permission(rule)[2]
    IN  \/ rule_module = Star /\ rule_action = Star
        \/ rule_module = module /\ rule_action = Star
        \/ rule_module = Star /\ rule_action = action
        \/ rule_module = module /\ (action \in ActionList(rule) \/ Star \in ActionList(rule))

\* C2: _matches_permission returns true exactly in the four cases of the
\* matching policy and false in every other case; so "*:*" matches every
\* (module, action), "a:*" matches every action of module "a" and no action
\* of another module, and "a:a,b" matches a:a and a:b but no other action of "a".
C2_MatchesExactlyFourCases ==
    m_pc = "return" =>
        /\ m_result = FourCases(m_rule, m_module, m_action)
        /\ (m_rule = RuleAll => m_result)
        /\ (m_rule = <<"a", ":", "*">> => (m_result <=> m_module = <<"a">>))
        /\ (m_rule = RuleAab /\ m_module = <<"a">>
               => (m_result <=> m_action \in {<<"a">>, <<"b">>}))
        /\ (m_rule = RuleAab /\ m_module # <<"a">> => ~m_result)

\* C2 witness: the rule "a:,*" (an action list holding "*") has matched a:c
C2_Witness ==
    /\ m_pc = "return"
    /\ m_rule = <<"a", ":", ",", "*">>
    /\ m_module = <<"a">>
    /\ m_action = <<"c">>
    /\ m_result

(***************************************************************************)
(* Properties of the calls (Spec).                                         *)
(***************************************************************************)
\* the engine get_engine() returned
Engine == world.objs[world.engine]

\* C1: check_permission(roles, permission) returns true iff some rule of
\* get_role_permissions(r), for some r in roles, matches the (module, action)
\* parsed from permission; it returns false for the empty role list.
C1_CheckPermissionIffSomeRoleRuleMatches ==
    c_op = "check_permission" =>
        /\ c_result <=>
              \E i \in 1..Len(c_roles) :
                 \E rule \in get_role_permissions(Engine, c_roles[i]) :
                    _matches_permission(rule, _parse_permission(c_permission)[1],
                                        _parse_permission(c_permission)[2])
        /\ (c_roles = <<>> => ~c_result)

\* C1 witness: a check was granted by the second role of the list alone
C1_Witness ==
    /\ c_op = "check_permission"
    /\ Len(c_roles) = 2
    /\ c_result
    /\ ~check_permission(Engine, <<c_roles[1]>>, c_permission)

\* C6 as claimed: a reload that fails (source missing or unparsable, or the
\* build of the cache raises) raises to its caller and leaves the engine's
\* config and permission cache those of the snapshot before the reload.
C6_FailedReloadKeepsSnapshot ==
    c_op = "reload" /\ c_exc # "" =>
        /\ Engine._config = c_before._config
        /\ Engine._permission_cache = c_before._permission_cache

\* the user was let past the guard of has_permission
Authenticated(user) == user.truthy /\ user.is_authenticated

\* C7: has_permission returns false, without consulting the policy, for a
\* user that is absent or not authenticated, whatever roles it carries.
C7_UnauthenticatedIsDenied ==
    c_op = "has_permission" /\ ~Authenticated(c_user) =>
        c_result = FALSE /\ c_exc = "" /\ ~c_checked

\* C7 witness: has_permission denied a user object that is not authenticated
\* and carries a role to which the loaded policy grants the permission
C7_Witness ==
    /\ c_op = "has_permission"
    /\ c_user.truthy /\ ~c_user.is_authenticated
    /\ c_user.roles_attr = "list" /\ c_user.roles = <<"superadmin">>
    /\ world.engine # 0
    /\ check_permission(Engine, <<"superadmin">>, c_permission)
    /\ ~c_result

\* C8: when has_permission is false the wrapper returns the forbidden
\* response and the wrapped function is not invoked.
C8_DeniedIsForbiddenAndNotInvoked ==
    c_op = "wrapper" /\ c_exc = "" /\ ~c_result =>
        w_response.kind = "forbidden" /\ w_invoked = <<>>

\* C8 witness: the policy was consulted and denied the request
C8_Witness ==
    /\ c_op = "wrapper"
    /\ c_checked /\ ~c_result
    /\ w_response.kind = "forbidden"

\* C9: when has_permission is true the wrapped function is invoked exactly
\* once, with the caller's request and arguments, and the wrapper returns
\* what it returned.
C9_AllowedInvokesOnceAndPassesResult ==
    c_op = "wrapper" /\ c_result =>
        /\ w_invoked = <<[user |-> c_user, args |-> c_args]>>
        /\ Len(w_returned) = 1
        /\ w_response = [kind |-> "returned", value |-> w_returned[1]]

\* C9 witness: a request with an argument went through and returned "created"
C9_Witness ==
    /\ c_op = "wrapper"
    /\ c_result
    /\ c_args = <<"post_id">>
    /\ w_response = [kind |-> "returned", value |-> "created"]

\* C10 as claimed: for an authenticated user whose role list is empty the
\* check is made with [get_default_role("new_user")].
C10_EmptyRoleListGetsDefaultRole ==
    /\ c_op = "has_permission"
    /\ Authenticated(c_user)
    /\ c_user.roles_attr \in {"list", "callable"}
    /\ c_user.roles = <<>>
    /\ c_exc = ""
    => /\ c_checked
       /\ c_roles = <<get_default_role(Engine, "new_user").role>>

(***************************************************************************)
(* Properties of the resolver (SpecResolve).                               *)
(***************************************************************************)
\* the direct permissions a configuration declares for a role
Direct(config, r) == Range(role_body(config.roles, r).permissions)

\* the parents listed in r's inherits entry
Inherits(config, r) ==
    IF r \in DOMAIN config.hierarchy THEN Range(config.hierarchy[r].inherits) ELSE {}

\* C3 as claimed: once the cache is built, get_role_permissions(r) of every
\* declared role r is the union of r's direct permissions and of
\* get_role_permissions(p) for every parent p of r's inherits entry.
C3_ResolvedIsDirectPlusParentsResolved ==
    c_op = "get_engine" /\ c_exc = "" =>
        \A r \in role_names(Engine._config.roles) :
            get_role_permissions(Engine, r) =
                Direct(Engine._config, r)
                \cup UNION {get_role_permissions(Engine, p) : p \in Inherits(Engine._config, r)}

(***************************************************************************)
(* Properties of the threads (SpecFirst, SpecReload).                      *)
(***************************************************************************)
\* C4 as claimed: a check_permission call made while a thread reloads the
\* engine returns what it would return on the complete snapshot before the
\* reload or on the complete snapshot after it.
C4_CheckSeesPreOrPostSnapshot ==
    \A t \in Threads :
        (/\ t_pc[t] = "idle"
         /\ t_loc[t].op = "check_permission"
         /\ t_loc[t].tracked)
        => t_loc[t].result \in t_loc[t].allowed

\* C5 as claimed: under concurrent first access the configuration is loaded
\* and the permission cache is built exactly once.
C5_FirstAccessBuildsOnce == n_builds <= 1

(***************************************************************************)
(* Properties of the role list of has_permission (Spec).                   *)
(***************************************************************************)
\* C11 as claimed: for an authenticated user carrying the superuser flag,
\* has_permission makes the check with "superadmin" in the role list,
\* whatever roles are assigned to the user.
C11_SuperuserChecksWithSuperadmin ==
    /\ c_op = "has_permission"
    /\ Authenticated(c_user)
    /\ c_user.is_superuser
    /\ c_exc = ""
    => /\ c_checked
       /\ "superadmin" \in Range(c_roles)

(***************************************************************************)
(* Properties of unknown role names (Spec).                                *)
(***************************************************************************)
\* the role names the configuration of an engine declares under roles
Declared(self) ==
    IF self._config.kind = "None" THEN {} ELSE role_names(self._config.roles)

\* C12: for a role name that the configuration does not declare,
\* get_role_permissions returns the empty set and check_permission with only
\* that role returns false for every permission; neither raises.
C12_UnknownRoleIsEmptyAndDenied ==
    /\ world.engine # 0 =>
          /\ Engine.has_cache
          /\ \A r \in Names \ Declared(Engine) :
                /\ get_role_permissions(Engine, r) = {}
                /\ \A p \in RequestedPermissions : ~check_permission(Engine, <<r>>, p)
    /\ (/\ c_op = "check_permission"
        /\ Len(c_roles) = 1
        /\ c_roles[1] \notin Declared(Engine))
       => c_exc = "" /\ ~c_result

\* C12 witness: a check with only "ghost", which the hierarchy names but roles
\* does not declare, was denied a permission that the policy grants to "viewer"
C12_Witness ==
    /\ c_op = "check_permission"
    /\ c_roles = <<"ghost">>
    /\ Engine._config.kind = "dict"
    /\ "ghost" \in DOMAIN Engine._config.hierarchy
    /\ check_permission(Engine, <<"viewer">>, c_permission)
    /\ c_exc = "" /\ ~c_result

(***************************************************************************)
(* Further properties of the resolver (SpecResolve).                       *)
(***************************************************************************)
\* C13 as claimed: an inherits reference to a name that roles does not
\* declare adds no permission, so a declared role whose only parents are
\* undeclared names resolves to exactly its own direct permissions, and the
\* build does not raise.
C13_UndeclaredParentAddsNothing ==
    c_op = "get_engine" =>
        /\ c_exc = ""
        /\ \A r \in Declared(Engine) :
              (/\ Inherits(Engine._config, r) # {}
               /\ Inherits(Engine._config, r) \cap Declared(Engine) = {})
              => get_role_permissions(Engine, r) = Direct(Engine._config, r)

(***************************************************************************)
(* Properties of the build, statement by statement (SpecBuild).            *)
(***************************************************************************)
\* get_engine() has returned on thread 1 and the cache has an entry for
\* exactly the declared roles
BuildComplete ==
    /\ t_pc[1] = "idle"
    /\ t_loc[1].op = "get_engine"
    /\ t_loc[1].exc = ""
    /\ world.engine # 0
    /\ DOMAIN Engine._permission_cache = Declared(Engine)

\* C14: the build of the permission cache terminates for every hierarchy,
\* those with cycles and self-loops included, without raising, and leaves
\* an entry for every declared role.
C14_BuildTerminatesOnCycles == <>BuildComplete

\* C14 witness: the build completed on a hierarchy where editor and viewer
\* inherit each other and superadmin inherits itself
C14_Witness ==
    /\ BuildComplete
    /\ Engine._config.hierarchy =
          MkHierarchy({<<"editor", "viewer">>, <<"viewer", "editor">>,
                       <<"superadmin", "superadmin">>})
    /\ Engine._permission_cache["editor"] = Engine._permission_cache["viewer"]

(***************************************************************************)
(* Properties of the reload (Spec).                                        *)
(***************************************************************************)
\* the engine a first load of roles.yaml gives
FirstLoad(src) == _load_config(NewEngine, src).self

\* C15: after a reload that completed, the cache holds what the new
\* configuration gives and nothing of the old cache: every role has the
\* permissions a first load of the new configuration gives it, and a permission
\* that the engine granted to a role before the reload and the new
\* configuration does not grant is denied.
C15_ReloadLeavesNoStaleEntry ==
    c_op = "reload" /\ c_exc = "" =>
        /\ Engine._config = source.content
        /\ \A r \in Names :
              get_role_permissions(Engine, r) = get_role_permissions(FirstLoad(source), r)
        /\ \A r \in Names, p \in RequestedPermissions :
              (/\ check_permission(c_before, <<r>>, p)
               /\ ~check_permission(FirstLoad(source), <<r>>, p))
              => ~check_permission(Engine, <<r>>, p)

\* C15 witness: a reload completed on a configuration that no longer declares
\* "viewer", to which the engine granted a:a before, and a:a is now denied
C15_Witness ==
    /\ c_op = "reload" /\ c_exc = ""
    /\ check_permission(c_before, <<"viewer">>, <<"a", ":", "a">>)
    /\ check_permission(c_before, <<"editor">>, <<"a", ":", "a">>)
    /\ "viewer" \notin Declared(Engine)
    /\ ~check_permission(Engine, <<"viewer">>, <<"a", ":", "a">>)
    /\ ~check_permission(Engine, <<"editor">>, <<"a", ":", "a">>)

(***************************************************************************)
(* Properties of the first use (Spec).                                     *)
(***************************************************************************)
\* no configuration was ever loaded: there is no engine, and the singleton
\* instance, if __new__ made one, is as __new__ left it
Unloaded ==
    /\ world.engine = 0
    /\ world.instance # 0 => world.objs[world.instance] = NewEngine

\* C16: while roles.yaml is missing and nothing was loaded yet, every call
\* that needs the engine raises FileNotFoundError, get_engine() returns no
\* engine, no permission check is answered and no wrapped function runs,
\* and the engine stays unloaded for the next call; only the guard of
\* has_permission on the user answers (false) without the engine.
C16_MissingSourceNeverReady ==
    [][ (/\ source = Missing
         /\ Unloaded
         /\ c_op' \in {"get_engine", "has_permission", "wrapper"})
        => /\ Unloaded'
           /\ ~c_checked'
           /\ ~c_result'
           /\ w_invoked' = <<>>
           /\ (c_op' = "get_engine" => c_exc' = "FileNotFoundError")
           /\ (c_op' # "get_engine" =>
                  c_exc' = IF Authenticated(c_user') THEN "FileNotFoundError" ELSE "")
      ]_vars

\* C16 witness: with roles.yaml missing, has_permission raised
\* FileNotFoundError for an authenticated superadmin on the instance that
\* __new__ had created, and there is still no engine
C16_Witness ==
    /\ source = Missing
    /\ c_op = "has_permission"
    /\ c_exc = "FileNotFoundError"
    /\ Authenticated(c_user)
    /\ c_user.roles_attr = "list"
    /\ c_user.roles = <<"superadmin">>
    /\ ~c_checked
    /\ Unloaded /\ world.instance # 0

(***************************************************************************)
(* Properties of the resolved sets (SpecResolve).                          *)
(***************************************************************************)
\* C17: for every declared role that has no inherits entry in the hierarchy,
\* or an empty one, get_role_permissions(role) is exactly the set of the
\* role's declared direct permissions.
C17_NoInheritsGivesDirectOnly ==
    c_op = "get_engine" /\ c_exc = "" =>
        \A r \in Declared(Engine) :
            Inherits(Engine._config, r) = {}
            => get_role_permissions(Engine, r) = Direct(Engine._config, r)

\* C17 witness: "editor" has an empty inherits list and resolved to its two
\* direct rules, while "viewer", which inherits it, got more than its own
C17_Witness ==
    /\ c_op = "get_engine" /\ c_exc = ""
    /\ "editor" \in DOMAIN Engine._config.hierarchy
    /\ Engine._config.hierarchy["editor"].inherits = <<>>
    /\ get_role_permissions(Engine, "editor") = {RuleAb, RuleB}
    /\ get_role_permissions(Engine, "superadmin") = {RuleAll}
    /\ get_role_permissions(Engine, "viewer") = {RuleAa, RuleAb, RuleB}

\* the chains r1 inherits r2 inherits ... inherits rn of declared roles
DeclaredChains(config) ==
    {c \in ListsUpTo(role_names(config.roles), Len(config.roles)) :
        /\ Len(c) >= 2
        /\ \A i \in 1..(Len(c) - 1) : c[i + 1] \in Inherits(config, c[i])}

\* some direct rule of role r matches the requested permission
DirectlyGranted(config, r, permission) ==
    \E rule \in Direct(config, r) :
        _matches_permission(rule, _parse_permission(permission)[1],
                            _parse_permission(permission)[2])

\* C18: inheritance is transitive: along every chain r1 inherits r2 inherits
\* ... inherits rn of declared roles, every permission granted directly to rn
\* is granted to r1, so check_permission([r1], p) is true for each p that a
\* direct rule of rn matches.
C18_InheritanceIsTransitive ==
    c_op = "get_engine" /\ c_exc = "" =>
        \A c \in DeclaredChains(Engine._config) :
            /\ Direct(Engine._config, c[Len(c)]) \subseteq get_role_permissions(Engine, c[1])
            /\ \A p \in RequestedPermissions :
                  DirectlyGranted(Engine._config, c[Len(c)], p)
                  => check_permission(Engine, <<c[1]>>, p)

\* C18 witness: superadmin inherits editor inherits viewer and nothing else,
\* no role has a wildcard, and superadmin is granted viewer's a:a, which
\* neither its own rule nor editor's matches
C18_Witness ==
    /\ c_op = "get_engine" /\ c_exc = ""
    /\ Engine._config.hierarchy =
          MkHierarchy({<<"superadmin", "editor">>, <<"editor", "viewer">>})
    /\ Direct(Engine._config, "superadmin") = {RuleB}
    /\ ~DirectlyGranted(Engine._config, "superadmin", <<"a", ":", "a">>)
    /\ ~DirectlyGranted(Engine._config, "editor", <<"a", ":", "a">>)
    /\ check_permission(Engine, <<"superadmin">>, <<"a", ":", "a">>)

(***************************************************************************)
(* Properties of the parser (SpecMatch).                                   *)
(***************************************************************************)
\* C19: a rule string without ':' is parsed as module = the whole string and
\* action = "*", so the bare rule "m" matches exactly what "m:*" matches; a
\* string with ':' is cut at its first ':' only: the module part holds no
\* ':' and module, ':' and action joined give the string back.
C19_BareRuleIsModuleWildcard ==
    m_pc = "return" =>
        /\ ~contains(m_rule, ":") =>
              /\ _parse_permission(m_rule) = <<m_rule, Star>>
              /\ m_result = _matches_permission(m_rule \o <<":", "*">>, m_module, m_action)
        /\ contains(m_rule, ":") =>
              /\ ~contains(_parse_permission(m_rule)[1], ":")
              /\ _parse_permission(m_rule)[1] \o <<":">> \o _parse_permission(m_rule)[2]
                    = m_rule

\* C19 witness: the bare rule "b" has matched b:c, as "b:*" does
C19_Witness ==
    /\ m_pc = "return"
    /\ m_rule = <<"b">>
    /\ m_module = <<"b">>
    /\ m_action = <<"c">>
    /\ m_result
    /\ _matches_permission(<<"b", ":", "*">>, m_module, m_action)

(***************************************************************************)
(* Properties of the default role (Spec).                                  *)
(***************************************************************************)
\* C20: on an engine that holds a configuration, get_default_role(context)
\* returns the role that defaults configures for context, and the fixed
\* default "viewer" when defaults has no such context or the configuration
\* has no defaults at all.
C20_DefaultRoleOrViewer ==
    c_op = "get_default_role" /\ Engine._config.kind = "dict" =>
        /\ c_exc = ""
        /\ c_args[1] \in DOMAIN Engine._config.defaults
              => c_roles = <<Engine._config.defaults[c_args[1]]>>
        /\ c_args[1] \notin DOMAIN Engine._config.defaults
              => c_roles = <<"viewer">>

\* C20 witness: defaults configures new_user -> editor, and the context "api",
\* which it does not configure, got "viewer"
C20_Witness ==
    /\ c_op = "get_default_role"
    /\ Engine._config.kind = "dict"
    /\ Engine._config.defaults = NewUserEditor
    /\ c_args = <<"api">>
    /\ c_roles = <<"viewer">>

(***************************************************************************)
(* Properties of list_roles (Spec).                                        *)
(***************************************************************************)
\* the last load that read a configuration completed: the engine holds a
\* configuration in which every declared role has a body
LoadedWhole(self) ==
    /\ self._config.kind = "dict"
    /\ \A i \in 1..Len(self._config.roles) : ~self._config.roles[i].isNone

\* C21: after a successful load, list_roles() returns one entry per role the
\* source declares and no other entry, each pairing the role name with its
\* declared description.
C21_ListRolesIsDeclaredRoles ==
    c_op = "list_roles" /\ LoadedWhole(Engine) =>
        /\ c_exc = ""
        /\ Len(c_value) = Cardinality(Declared(Engine))
        /\ {c_value[i].name : i \in 1..Len(c_value)} = Declared(Engine)
        /\ \A i \in 1..Len(c_value) :
              c_value[i].description = role_body(Engine._config.roles, c_value[i].name).description

\* C21 witness: list_roles() on the two-role configuration gave the two
\* entries, superadmin with its description
C21_Witness ==
    /\ c_op = "list_roles"
    /\ Engine._config = WithoutViewer
    /\ c_value = <<[name |-> "superadmin", description |-> "Full access"],
                   [name |-> "editor", description |-> ""]>>

(***************************************************************************)
(* ModelWrapper (registry.py): threads call get() and unload() on one      *)
(* wrapper, a step per statement.  The loader returns a new model on every *)
(* call, model n on its n-th call, and never None.                         *)
(***************************************************************************)
\* thread t calls wrapper.get()
StartGet(t) ==
    /\ t_pc[t] = "idle"
    /\ t_loc[t].calls < MaxCalls
    /\ Goto(t, "get_check", [t_loc[t] EXCEPT !.op = "get", !.instance = 0,
                                             !.calls = @ + 1])
    /\ UNCHANGED <<matchVars, engineVars, callVars, published, n_builds,
                   wrapperVars, settingsVars>>

\* line 54: if not self._loaded
GetCheck(t) ==
    /\ t_pc[t] = "get_check"
    /\ Goto(t, IF mw_loaded THEN "get_return" ELSE "get_lock", t_loc[t])
    /\ UNCHANGED <<matchVars, engineVars, callVars, published, n_builds,
                   wrapperVars, settingsVars>>

\* a plausible slip: the second check under the lock is missing
GetLock_NoRecheck(t) ==
    /\ t_pc[t] = "get_lock"
    /\ mw_lock = 0
    /\ mw_lock' = t
    /\ Goto(t, "get_load", t_loc[t])
    /\ UNCHANGED <<matchVars, engineVars, callVars, published, n_builds,
                   mw_instance, mw_loaded, mw_loads, settingsVars>>

\* lines 55-56: with self._lock: if not self._loaded (the lock is released
\* at once when the model is loaded by now)
GetLock(t) ==
    /\ t_pc[t] = "get_lock"
    /\ mw_lock = 0
    /\ mw_lock' = IF mw_loaded THEN 0 ELSE t
    /\ Goto(t, IF mw_loaded THEN "get_return" ELSE "get_load", t_loc[t])
    /\ UNCHANGED <<matchVars, engineVars, callVars, published, n_builds,
                   mw_instance, mw_loaded, mw_loads, settingsVars>>

\* line 58: self._instance = self._loader()
GetLoad(t) ==
    /\ t_pc[t] = "get_load"
    /\ mw_loads' = mw_loads + 1
    /\ mw_instance' = mw_loads + 1
    /\ Goto(t, "get_loaded", t_loc[t])
    /\ UNCHANGED <<matchVars, engineVars, callVars, published, n_builds,
                   mw_loaded, mw_lock, settingsVars>>

\* line 59: self._loaded = True, and the lock is released
GetLoaded(t) ==
    /\ t_pc[t] = "get_loaded"
    /\ mw_loaded' = TRUE
    /\ mw_lock' = 0
    /\ Goto(t, "get_return", t_loc[t])
    /\ UNCHANGED <<matchVars, engineVars, callVars, published, n_builds,
                   mw_instance, mw_loads, settingsVars>>

\* line 61: return self._instance
GetReturn(t) ==
    /\ t_pc[t] = "get_return"
    /\ Goto(t, "idle", [t_loc[t] EXCEPT !.instance = mw_instance])
    /\ UNCHANGED <<matchVars, engineVars, callVars, published, n_builds,
                   wrapperVars, settingsVars>>

\* thread t calls wrapper.unload()
StartUnload(t) ==
    /\ t_pc[t] = "idle"
    /\ t_loc[t].calls < MaxCalls
    /\ Goto(t, "un_lock", [t_loc[t] EXCEPT !.op = "unload", !.calls = @ + 1])
    /\ UNCHANGED <<matchVars, engineVars, callVars, published, n_builds,
                   wrapperVars, settingsVars>>

\* lines 65-66: with self._lock: if self._loaded
UnLock(t) ==
    /\ t_pc[t] = "un_lock"
    /\ mw_lock = 0
    /\ mw_lock' = IF mw_loaded THEN t ELSE 0
    /\ Goto(t, IF mw_loaded THEN "un_clear" ELSE "idle", t_loc[t])
    /\ UNCHANGED <<matchVars, engineVars, callVars, published, n_builds,
                   mw_instance, mw_loaded, mw_loads, settingsVars>>

\* line 68: self._instance = None
UnClear(t) ==
    /\ t_pc[t] = "un_clear"
    /\ mw_instance' = 0
    /\ Goto(t, "un_unloaded", t_loc[t])
    /\ UNCHANGED <<matchVars, engineVars, callVars, published, n_builds,
                   mw_loaded, mw_lock, mw_loads, settingsVars>>

\* line 69: self._loaded = False, and the lock is released
UnUnloaded(t) ==
    /\ t_pc[t] = "un_unloaded"
    /\ mw_loaded' = FALSE
    /\ mw_lock' = 0
    /\ Goto(t, "idle", t_loc[t])
    /\ UNCHANGED <<matchVars, engineVars, callVars, published, n_builds,
                   mw_instance, mw_loads, settingsVars>>

\* lines 71-73: thread t reads the property wrapper.is_loaded
IsLoaded(t) ==
    /\ t_pc[t] = "idle"
    /\ t_loc[t].calls < MaxCalls
    /\ Goto(t, "idle", [t_loc[t] EXCEPT !.op = "is_loaded", !.result = mw_loaded,
                                        !.instance = 0, !.calls = @ + 1])
    /\ UNCHANGED <<matchVars, engineVars, callVars, published, n_builds,
                   wrapperVars, settingsVars>>

WrapperInit ==
    /\ MatchIdle
    /\ source = Missing
    /\ EngineStart
    /\ CallIdle
    /\ WrapperNew
    /\ SettingsEmpty
    /\ ConcIdle

\* get() only
WrapperGetNext ==
    \E t \in Threads :
        \/ StartGet(t)
        \/ GetCheck(t)
        \/ GetLock(t)
        \/ GetLoad(t)
        \/ GetLoaded(t)
        \/ GetReturn(t)
        \/ IsLoaded(t)

SpecWrapperGet == WrapperInit /\ [][WrapperGetNext]_vars

\* get() and unload()
WrapperNext ==
    \E t \in Threads :
        \/ StartGet(t)
        \/ GetCheck(t)
        \/ GetLock(t)
        \/ GetLoad(t)
        \/ GetLoaded(t)
        \/ GetReturn(t)
        \/ IsLoaded(t)
        \/ StartUnload(t)
        \/ UnLock(t)
        \/ UnClear(t)
        \/ UnUnloaded(t)

SpecWrapper == WrapperInit /\ [][WrapperNext]_vars

(***************************************************************************)
(* Properties of ModelWrapper (SpecWrapperGet, SpecWrapper).               *)
(***************************************************************************)
\* thread t has a get() that returned
GetReturned(t) == t_pc[t] = "idle" /\ t_loc[t].op = "get"

\* C22: under concurrent get() calls on one wrapper, with no unload(), the
\* loader is invoked at most once and every call returns the one instance
\* it loaded.
C22_GetLoadsOnce ==
    /\ mw_loads <= 1
    /\ \A t \in Threads :
          GetReturned(t) => mw_loads = 1 /\ t_loc[t].instance = 1

\* C22 witness: every thread has made one get() call, the loader ran once
\* and every call returned the instance it loaded
C22_Witness ==
    /\ \A t \in Threads : GetReturned(t) /\ t_loc[t].calls = 1 /\ t_loc[t].instance = 1
    /\ mw_loads = 1

\* C28 as claimed: get() never returns None, under every interleaving of
\* get() and unload() calls on the wrapper.
C28_GetNeverReturnsNone ==
    \A t \in Threads : GetReturned(t) => t_loc[t].instance # 0

(***************************************************************************)
(* SiteSettings (settings/models.py): threads call SiteSettings.get() and  *)
(* save() on instances, a step per statement.  The table and the cache are *)
(* shared; each statement on them is atomic.  One save() runs at a time,   *)
(* and the n-th save() writes the value n.                                 *)
(***************************************************************************)
\* the primary keys an instance may carry before save(): 0 is None (a new
\* instance), 1 the settings row, 2 any other key
InstanceKeys == {0, 1, 2}

\* thread t calls SiteSettings.get()
StartSiteGet(t) ==
    /\ t_pc[t] = "idle"
    /\ t_loc[t].calls < MaxCalls
    /\ Goto(t, "sg_cache", [t_loc[t] EXCEPT !.op = "site_get", !.cached = NoRow,
                                            !.settings = NoRow, !.floor = last_saved,
                                            !.calls = @ + 1])
    /\ UNCHANGED <<matchVars, engineVars, callVars, published, n_builds,
                   wrapperVars, settingsVars>>

\* lines 118-120: cached = cache.get("site_settings"); if cached: return cached
SiteGetCache(t) ==
    /\ t_pc[t] = "sg_cache"
    /\ IF site_cache # NoRow
       THEN Goto(t, "idle", [t_loc[t] EXCEPT !.cached = site_cache, !.settings = site_cache])
       ELSE Goto(t, "sg_db", t_loc[t])
    /\ UNCHANGED <<matchVars, engineVars, callVars, published, n_builds,
                   wrapperVars, settingsVars>>

\* the table after get_or_create(pk=1): the row is created with the field
\* defaults when it is missing
get_or_create(table, pk) ==
    IF pk \in DOMAIN table THEN table
    ELSE [k \in DOMAIN table \cup {pk} |->
             IF k = pk THEN [pk |-> pk, site_name |-> 0] ELSE table[k]]

\* line 122: settings, _ = cls.objects.get_or_create(pk=1)
SiteGetRow(t) ==
    /\ t_pc[t] = "sg_db"
    /\ rows' = get_or_create(rows, 1)
    /\ Goto(t, "sg_set", [t_loc[t] EXCEPT !.settings = get_or_create(rows, 1)[1]])
    /\ UNCHANGED <<matchVars, engineVars, callVars, published, n_builds,
                   wrapperVars, site_cache, last_saved>>

\* lines 123-124: cache.set("site_settings", settings, timeout=300); return
SiteGetSet(t) ==
    /\ t_pc[t] = "sg_set"
    /\ site_cache' = t_loc[t].settings
    /\ Goto(t, "idle", t_loc[t])
    /\ UNCHANGED <<matchVars, engineVars, callVars, published, n_builds,
                   wrapperVars, rows, last_saved>>

\* the cache entry expires (timeout=300)
CacheExpire ==
    /\ site_cache # NoRow
    /\ site_cache' = NoRow
    /\ UNCHANGED <<matchVars, engineVars, callVars, concVars, wrapperVars,
                   rows, last_saved>>

\* thread t calls save() on an instance holding new values
StartSave(t) ==
    /\ t_pc[t] = "idle"
    /\ t_loc[t].calls < MaxCalls
    /\ \A u \in Threads : t_loc[u].op # "save" \/ t_pc[u] = "idle"
    /\ \E pk \in InstanceKeys :
          Goto(t, "sv_pk", [t_loc[t] EXCEPT !.op = "save",
                                            !.settings = [pk |-> pk,
                                                          site_name |-> last_saved + 1],
                                            !.calls = @ + 1])
    /\ UNCHANGED <<matchVars, engineVars, callVars, published, n_builds,
                   wrapperVars, settingsVars>>

\* a plausible slip: the primary key is left as the instance has it
save_pk_Keeps(pk) == pk

\* line 105: self.pk = 1
save_pk(pk) == 1

SavePk(t) ==
    /\ t_pc[t] = "sv_pk"
    /\ Goto(t, "sv_save", [t_loc[t] EXCEPT !.settings.pk = save_pk(@)])
    /\ UNCHANGED <<matchVars, engineVars, callVars, published, n_builds,
                   wrapperVars, settingsVars>>

\* the key Model.save() writes the instance under: its own, or the next free
\* key when it has none
row_key(table, obj) ==
    IF obj.pk # 0 THEN obj.pk
    ELSE IF DOMAIN table = {} THEN 1
    ELSE (CHOOSE k \in DOMAIN table : \A j \in DOMAIN table : j <= k) + 1

\* the table after Model.save(): the row of that key is updated or inserted
saved(table, obj) ==
    [k \in DOMAIN table \cup {row_key(table, obj)} |->
        IF k = row_key(table, obj)
        THEN [pk |-> row_key(table, obj), site_name |-> obj.site_name]
        ELSE table[k]]

\* line 106: super().save(*args, **kwargs)
SaveRow(t) ==
    /\ t_pc[t] = "sv_save"
    /\ rows' = saved(rows, t_loc[t].settings)
    /\ Goto(t, "sv_delete", [t_loc[t] EXCEPT !.settings.pk = row_key(rows, t_loc[t].settings)])
    /\ UNCHANGED <<matchVars, engineVars, callVars, published, n_builds,
                   wrapperVars, site_cache, last_saved>>

\* line 108: cache.delete("site_settings"); save() returns
SaveInvalidate(t) ==
    /\ t_pc[t] = "sv_delete"
    /\ site_cache' = NoRow
    /\ last_saved' = t_loc[t].settings.site_name
    /\ Goto(t, "idle", t_loc[t])
    /\ UNCHANGED <<matchVars, engineVars, callVars, published, n_builds,
                   wrapperVars, rows>>

SettingsInit == WrapperInit

SettingsNext ==
    \/ CacheExpire
    \/ \E t \in Threads :
        \/ StartSiteGet(t)
        \/ SiteGetCache(t)
        \/ SiteGetRow(t)
        \/ SiteGetSet(t)
        \/ StartSave(t)
        \/ SavePk(t)
        \/ SaveRow(t)
        \/ SaveInvalidate(t)

SpecSettings == SettingsInit /\ [][SettingsNext]_vars

(***************************************************************************)
(* Properties of SiteSettings (SpecSettings).                              *)
(***************************************************************************)
\* thread t has a SiteSettings.get() that returned
SiteGetReturned(t) == t_pc[t] = "idle" /\ t_loc[t].op = "site_get"

\* C23: after any get() and save() calls at most one settings row exists,
\* its primary key is 1, and every get() returns the row of primary key 1.
C23_SettingsIsSingleton ==
    /\ DOMAIN rows \subseteq {1}
    /\ \A t \in Threads : SiteGetReturned(t) => t_loc[t].settings.pk = 1
    /\ site_cache # NoRow => site_cache.pk = 1

\* C23 witness: an instance was saved, and a get() after it returned row 1
\* with the saved value
C23_Witness ==
    /\ DOMAIN rows = {1}
    /\ last_saved = 2
    /\ \E t \in Threads :
          /\ SiteGetReturned(t)
          /\ t_loc[t].settings = [pk |-> 1, site_name |-> 2]

\* C29 as claimed: once a save() has returned, the cache entry holds no row
\* older than that save, and a get() called after it returns the saved
\* values or newer ones.
C29_CacheNotOlderThanLastSave ==
    /\ site_cache # NoRow => site_cache.site_name >= last_saved
    /\ \A t \in Threads :
          SiteGetReturned(t) => t_loc[t].settings.site_name >= t_loc[t].floor

(***************************************************************************)
(* Properties of cyclic hierarchies (SpecResolve).                         *)
(***************************************************************************)
\* the names one more inherits edge away from the names of S, with S
Step(config, S) == S \cup UNION {Inherits(config, n) : n \in S}

\* the names reachable from r through one or more inherits edges (there
\* are four names, so three more edges reach all of them)
Reachable(config, r) ==
    Step(config, Step(config, Step(config, Inherits(config, r))))

\* the hierarchy has a cycle: some name is reachable from itself
Cyclic(config) == \E n \in Names : n \in Reachable(config, n)

\* the hierarchy of engine self is cyclic and the resolved set of role r
\* lacks a direct permission of a declared role reachable from r
UnderResolved(self, r) ==
    /\ Cyclic(self._config)
    /\ \E s \in Reachable(self._config, r) \cap Declared(self) :
          ~(Direct(self._config, s) \subseteq get_role_permissions(self, r))

\* C24 as claimed: there is a cyclic configuration and a role r for which, once
\* the engine has loaded it, get_role_permissions(r) lacks a direct
\* permission of some role reachable from r.
C24_CycleUnderResolves ==
    c_op = "get_engine" /\ c_exc = "" =>
        \E src \in HierarchySources :
            \E r \in Declared(_load_config(Engine, src).self) :
                UnderResolved(_load_config(Engine, src).self, r)

\* C24 amended: for a cyclic hierarchy, resolution stops at a role name
\* already visited on the current path of calls, and the resolved set of
\* every declared role still holds every direct permission of every declared
\* role reachable from it: nothing is left out.
C24_CyclesResolveCompletely ==
    c_op = "get_engine" /\ c_exc = "" /\ Cyclic(Engine._config) =>
        \A r \in Declared(Engine) :
            \A s \in Reachable(Engine._config, r) \cap Declared(Engine) :
                Direct(Engine._config, s) \subseteq get_role_permissions(Engine, r)

\* C24 witness: editor and viewer inherit each other and viewer inherits
\* superadmin; editor, on the cycle, holds superadmin's rule, which it
\* reaches only through viewer
C24_Witness ==
    /\ c_op = "get_engine" /\ c_exc = ""
    /\ Engine._config.hierarchy =
          MkHierarchy({<<"editor", "viewer">>, <<"viewer", "editor">>,
                       <<"viewer", "superadmin">>})
    /\ Direct(Engine._config, "superadmin") = {RuleAll}
    /\ RuleAll \in get_role_permissions(Engine, "editor")
    /\ RuleAb \in get_role_permissions(Engine, "viewer")

(***************************************************************************)
(* The lifecycle of the engine (SpecReload: the engine starts Ready).      *)
(***************************************************************************)
\* thread t is inside _load_config (lines 61-73)
InLoadConfig(t) ==
    t_pc[t] \in {"load_exists", "load_parse", "load_reset", "build_start", "build_loop"}

\* the engine holds a configuration and the complete cache built from it
Ready(self) ==
    /\ self.has_cache
    /\ _build_permission_cache(self._config, EmptyDict).exc = ""
    /\ self._permission_cache = _build_permission_cache(self._config, EmptyDict).cache

\* the state of the engine: Loading while a first construction is inside
\* _load_config, Reloading while a reload is, else Ready or Uninitialized
lifecycle ==
    IF \E t \in Threads : InLoadConfig(t) /\ t_loc[t].flow = "reload" THEN "Reloading"
    ELSE IF \E t \in Threads : InLoadConfig(t) THEN "Loading"
    ELSE IF Ready(Engine) THEN "Ready"
    ELSE "Uninitialized"

\* C25: the lifecycle takes only Uninitialized -> Loading -> Ready and
\* Ready -> Reloading -> Ready; an engine that has been Ready is Ready or
\* Reloading ever after, and every read of the cache by a check finds the
\* engine Ready or, during Reloading, finds the previous snapshot.
C25_ReadyStaysReadyOrReloading ==
    /\ lifecycle \in {"Ready", "Reloading"}
    /\ \A t \in Threads :
          t_pc[t] = "check_role" /\ t_loc[t].i <= Len(t_loc[t].user_roles) =>
              \/ lifecycle = "Ready"
              \/ /\ lifecycle = "Reloading"
                 /\ world.objs[t_loc[t].self]._permission_cache = published.cache

(***************************************************************************)
(* The modules section (Spec).                                             *)
(***************************************************************************)
\* the module names that the modules section of config declares
DeclaredModules(config) == {config.modules[i].name : i \in 1..Len(config.modules)}

\* C26: two configurations that differ only in their modules section give
\* the same check_permission result for every role list and permission
\* string: the result of a check on a Ready engine is the result on an
\* engine loaded from the same configuration with any other modules section.
C26_ModulesNotConsulted ==
    c_op = "check_permission" /\ Ready(Engine) =>
        \A m \in ModulesSections :
            c_result = check_permission(
                           FirstLoad(File([Engine._config EXCEPT !.modules = m])),
                           c_roles, c_permission)

\* C26 witness: a check of "b:c" for superadmin is granted on an engine
\* whose modules section declares module "a" only
C26_Witness ==
    /\ c_op = "check_permission" /\ Ready(Engine)
    /\ c_roles = <<"superadmin">>
    /\ c_permission = <<"b", ":", "c">>
    /\ <<"b">> \notin DeclaredModules(Engine._config)
    /\ c_result

(***************************************************************************)
(* The engine handed out on first access (SpecFirst).                      *)
(***************************************************************************)
\* C27: whenever get_engine() (PolicyEngine() inside it) has returned an
\* engine to a thread, that engine holds the complete cache of its loaded
\* configuration, also after an earlier attempt raised part-way through the
\* build and while another thread is inside the build.
C27_ReturnedEngineIsComplete ==
    \A t \in Threads :
        (/\ t_pc[t] = "idle"
         /\ t_loc[t].op = "get_engine"
         /\ t_loc[t].exc = ""
         /\ t_loc[t].engine # 0)
        => Ready(world.objs[t_loc[t].engine])

(***************************************************************************)
(* The two guard adapters (Spec).                                          *)
(***************************************************************************)
\* what a view wrapped by require_permission(permission) does with a request
\* of user in world w: the calls of the view and the wrapper's response
wrapped(user, args, permission, func_result, got) ==
    IF got.exc # ""
    THEN [invoked |-> <<>>, response |-> [kind |-> "raised", value |-> got.exc]]
    ELSE wrapper(got.result, [user |-> user, args |-> args], func_result)

\* C30: PermissionAuth(p)(request) returns request.user exactly when a view
\* wrapped by require_permission(p) would be invoked for that request in the
\* same state, and returns None exactly when that wrapper would return the
\* forbidden response.
C30_GuardAdaptersDecideAlike ==
    [][c_op' = "auth" =>
          \A args \in RequestArgs, func_result \in FuncResults :
              /\ w_response'.kind = "user" <=>
                     wrapped(c_user', args, c_permission', func_result,
                             has_permission(1, c_user', c_permission', world, source)
                            ).invoked # <<>>
              /\ w_response'.kind = "None" <=>
                     wrapped(c_user', args, c_permission', func_result,
                             has_permission(1, c_user', c_permission', world, source)
                            ).response.kind = "forbidden"]_vars

\* C30 witness: PermissionAuth("a:a") returned request.user for an
\* authenticated user whose role list was checked and granted
C30_Witness ==
    /\ c_op = "auth"
    /\ c_exc = ""
    /\ c_user.is_authenticated
    /\ c_permission = <<"a", ":", "a">>
    /\ c_checked /\ c_result
    /\ w_response.kind = "user"

====
